---- MODULE Spec2Model ----
(***************************************************************************)
(* A model of lucasmenendez/apihandler: the per-client token rate limiter  *)
(* (rate_limiter.go) with its cleanup goroutine, and the route template    *)
(* compiler and matcher (route.go).                                        *)
(*                                                                         *)
(* Strings are sequences of one-character strings.  Time is an integer     *)
(* number of clock units; `interval` is measured in the same units.        *)
(***************************************************************************)
EXTENDS Integers, Sequences, FiniteSets, TLC

VARIABLES
    \* ---- RateLimiter (rate_limiter.go) ----
    maxTokens,   \* RateLimiter.maxTokens
    interval,    \* RateLimiter.interval
    now,         \* the wall clock read by time.Now() / time.Since()
    clients,     \* RateLimiter.clients: client identity -> [tokens, age]
    mtx,         \* RateLimiter.mtx: its holder, or NoOwner
    cancelled,   \* RateLimiter.ctx is done
    cleanPc,     \* position of the cleanup goroutine
    tickerOn,    \* the ticker of cleanup is running (created, not stopped)
    nextTick,    \* the time of the ticker's next tick
    tickC,       \* a tick is waiting in the ticker channel (capacity 1)
    pc,          \* position of each caller of Allow
    ip,          \* the client identity getIP computed for the caller's request
    cl,          \* the result of the caller's map lookup (NoClient: !exists)
    log,         \* per client, the Allow calls in the order they held the mutex
    swept,       \* per client: a sweep pass completed since its last Allow call
    \* ---- route (route.go) ----
    rpath,       \* route.path, the template
    rgx,         \* route.rgx, the compiled regex (NoRgx before parse)
    rpc,         \* position of the route scenario
    uri,         \* the request URI handed to match / decodeArgs
    matched,     \* what route.match returned
    decoded,     \* what route.decodeArgs returned: [args, ok]
    \* ---- Handler (handler.go) ----
    cors,        \* Handler.cors
    limited,     \* Handler.rateLimiter != nil
    routes,      \* Handler.routes: [method, path, rgx, handler] in order
    hmtx,        \* Handler.mtx: "free", or the method that holds it
    reg,         \* the HandleFunc call in progress: [pc, method, path, handler]
    lastReg,     \* the last HandleFunc call that returned and its error
    srv,         \* the ServeHTTP call: [pc, method, path, admitted, found]
    resp,        \* its response: [status, invoked, hdr]
    \* ---- RateLimiter.Middleware and getIP (rate_limiter.go) ----
    mw,          \* per caller, its request through the wrapped handler
    gip,         \* a getIP call: [pc, forwarded, remote, out]
    \* ---- concurrent HandleFunc and find calls (handler.go) ----
    hf,          \* per registrar, its HandleFunc call: [pc, method, path, handler, idx]
    fd,          \* a find call: [pc, method, path, snap, i, out]
    \* ---- rateLimiter with a TTL (ratelimiter.go) ----
    ttl,          \* rateLimiter.ttl
    tnow,         \* the wall clock of this scenario
    rateLimiters, \* rateLimiter.rateLimiters: hostname -> [limiter, lastAccess]
    rlmtx,        \* rateLimiter.mtx: NoHolder, a caller, or TtlCleanupOwner
    made,         \* the number of rate.Limiter objects created so far
    tcall,        \* per caller, its call: [pc, op, addr, absent, entry, ok, out, n]
    tsweep,       \* the cleanup goroutine: [pc, now, next]
    tuse,         \* per hostname: [last, rets, by], the time its limiter was
                  \* last returned, what addrLimiter returned since the entry
                  \* was stored (and whether the call began before it was),
                  \* and the method that stored it
    \* ---- Handler with an error channel (handler.go, New) ----
    receiver,     \* a goroutine receives from Handler.Errors
    emtx,         \* Handler.mtx: NoHolder or the caller that holds it
    eroutes,      \* Handler.routes: [method, path, prog] in order
    ecall,        \* per caller, its HandleFunc or find call:
                  \* [pc, op, method, path, exist, n]
    received      \* the errors received from Handler.Errors so far

rlVars == <<maxTokens, interval, now, clients, mtx, cancelled, cleanPc,
            tickerOn, nextTick, tickC, pc, ip, cl, log, swept>>
routeVars == <<rpath, rgx, rpc, uri, matched, decoded>>
handlerVars == <<cors, limited, routes, hmtx, reg, lastReg, srv, resp>>
concVars == <<hf, fd>>
ttlVars == <<ttl, tnow, rateLimiters, rlmtx, made, tcall, tsweep, tuse>>
errVars == <<receiver, emtx, eroutes, ecall, received>>
legacyVars == <<ttlVars, errVars>>
extVars == <<handlerVars, mw, gip, concVars, legacyVars>>
vars == <<rlVars, routeVars, extVars>>

\* ------------------------------------------------------------------------
\* Bounds of the model
\* ------------------------------------------------------------------------
MaxTokensBound == 2
MaxIntervalBound == 2
MaxTime == 3
MaxCalls == 4
NumCallers == 2

\* The client identities of the rate limiter scenario, and those that have
\* a slot in the history variables.
ClientIds == {"c1"}
AllClients == {"c1", "c2"}
Callers == 1..NumCallers
NoOwner == 0
CleanupOwner == NumCallers + 1
NoIP == ""
NoClient == [tokens |-> -1, age |-> -1]

SetMax(S) == CHOOSE x \in S : \A y \in S : y <= x
SetMin(S) == CHOOSE x \in S : \A y \in S : x <= y

\* ------------------------------------------------------------------------
\* RateLimiter
\* ------------------------------------------------------------------------

\* No handler is in use while the limiter or a single route is exercised.
NoReg == [method |-> "", path |-> <<>>, err |-> "", replaced |-> FALSE]
NoCall == [pc |-> "idle", method |-> "", path |-> <<>>, handler |-> ""]
NoRoute == [method |-> "", path |-> <<>>, rgx |-> [src |-> <<>>, prog |-> <<>>],
            handler |-> ""]
NoRequest == [pc |-> "idle", method |-> "", path |-> <<>>, admitted |-> FALSE,
              consumed |-> 0,
              found |-> [route |-> NoRoute, exist |-> FALSE]]
NoHeader == [k \in {} |-> <<>>]
NoResponse == [status |-> 0, invoked |-> <<>>, hdr |-> NoHeader]

\* No request goes through the middleware and getIP is not exercised.
NoMw == [pc |-> "idle", allows |-> 0, ok |-> FALSE, nexts |-> 0, status |-> 0]
NoGetIP == [pc |-> "off", forwarded |-> <<>>, remote |-> <<>>, out |-> <<>>]
MiddlewareIdle == mw = [p \in Callers |-> NoMw]
GetIPIdle == gip = NoGetIP

\* No HandleFunc or find call runs concurrently with another.
Registrars == {"r1", "r2"}
NoHandleFunc == [pc |-> "idle", method |-> "", path |-> <<>>, handler |-> "",
                 idx |-> 0]
NoFind == [pc |-> "idle", method |-> "", path |-> <<>>, snap |-> <<>>, i |-> 0,
           out |-> [route |-> NoRoute, exist |-> FALSE]]
ConcIdle == hf = [r \in Registrars |-> NoHandleFunc] /\ fd = NoFind

\* The rateLimiter with a TTL is not constructed.
Hostnames == {"a.io"}
TtlCallers == {"g1", "g2"}
NoHolder == ""
NoEntry == [limiter |-> 0, lastAccess |-> 0]
NoOut == [limiter |-> 0, found |-> FALSE]
NoTtlCall == [pc |-> "idle", op |-> "", addr |-> "", absent |-> FALSE,
              entry |-> NoEntry, ok |-> FALSE, out |-> NoOut, n |-> 0]
NoUse == [last |-> -1, rets |-> <<>>, by |-> ""]
TtlIdle ==
    /\ ttl = 0
    /\ tnow = 0
    /\ rateLimiters = [h \in Hostnames |-> NoEntry]
    /\ rlmtx = NoHolder
    /\ made = 0
    /\ tcall = [p \in TtlCallers |-> NoTtlCall]
    /\ tsweep = [pc |-> "returned", now |-> 0, next |-> 0]
    /\ tuse = [h \in Hostnames |-> NoUse]

\* No Handler with an error channel is in use.
ErrCallers == {"e1", "e2"}
NoErrCall == [pc |-> "idle", op |-> "", method |-> "", path |-> <<>>,
              exist |-> FALSE, n |-> 0]
ErrIdle ==
    /\ receiver = FALSE
    /\ emtx = NoHolder
    /\ eroutes = <<>>
    /\ ecall = [p \in ErrCallers |-> NoErrCall]
    /\ received = 0

LegacyIdle == TtlIdle /\ ErrIdle

HandlerIdle ==
    /\ cors = FALSE
    /\ limited = FALSE
    /\ routes = <<>>
    /\ hmtx = "free"
    /\ reg = NoCall
    /\ lastReg = NoReg
    /\ srv = NoRequest
    /\ resp = NoResponse

\* The route scenario does not run while the limiter is exercised.
RouteIdle ==
    /\ rpath = <<>>
    /\ rgx = [src |-> <<>>, prog |-> <<>>]
    /\ rpc = "off"
    /\ uri = <<>>
    /\ matched = FALSE
    /\ decoded = [args |-> <<>>, ok |-> FALSE]

\* NewRateLimiter: any maxTokens and interval (neither is validated; a
\* ticker needs interval > 0), an empty clients map, and the cleanup
\* goroutine started: tiker := time.NewTicker(rl.interval) at time 0.
NewRateLimiter ==
    /\ maxTokens \in 0..MaxTokensBound
    /\ interval \in 1..MaxIntervalBound
    /\ now = 0
    /\ clients = [c \in {} |-> NoClient]
    /\ mtx = NoOwner
    /\ cancelled = FALSE
    /\ cleanPc = "select"
    /\ tickerOn = TRUE
    /\ nextTick = interval
    /\ tickC = FALSE
    /\ pc = [p \in Callers |-> "idle"]
    /\ ip = [p \in Callers |-> NoIP]
    /\ cl = [p \in Callers |-> NoClient]
    /\ log = [c \in AllClients |-> <<>>]
    /\ swept = [c \in AllClients |-> FALSE]

Init ==
    /\ NewRateLimiter /\ RouteIdle /\ HandlerIdle /\ MiddlewareIdle /\ GetIPIdle
    /\ ConcIdle
    /\ LegacyIdle

\* sync.Mutex.Lock can return only while nobody holds the mutex.
mtxFree_Broken == TRUE
mtxFree == mtx = NoOwner

\* The number of Allow calls made so far (finished or holding the mutex).
RECURSIVE LogLen(_)
LogLen(S) ==
    IF S = {} THEN 0
    ELSE LET c == CHOOSE d \in S : TRUE IN Len(log[c]) + LogLen(S \ {c})

CallsMade == LogLen(DOMAIN log) + Cardinality({p \in Callers : pc[p] # "idle"})

\* Allow, up to the lookup: ip := getIP(r); rl.mtx.Lock();
\* cl, exists := rl.clients[ip].  A caller blocked in Lock is one for which
\* this step is not enabled yet.
AllowEnter(p, c) ==
    /\ pc[p] = "idle"
    /\ CallsMade < MaxCalls
    /\ mtxFree
    /\ mtx' = p
    /\ ip' = [ip EXCEPT ![p] = c]
    /\ cl' = [cl EXCEPT ![p] = IF c \in DOMAIN clients
                                 THEN clients[c] ELSE NoClient]
    /\ pc' = [pc EXCEPT ![p] = "locked"]
    /\ UNCHANGED <<maxTokens, interval, now, clients, cancelled, cleanPc,
                   tickerOn, nextTick, tickC, log, swept>>

\* Allow called directly.
AllowLock(p, c) == AllowEnter(p, c) /\ UNCHANGED <<routeVars, extVars>>

\* cl is a pointer: the fields read after the lookup are those of the map's
\* object (the looked-up copy stands for it once the map dropped the key,
\* which the mutex excludes).
Deref(p) == IF ip[p] \in DOMAIN clients THEN clients[ip[p]] ELSE cl[p]

\* &client{tokens: 1, age: time.Now()}
NewClient_Empty == [tokens |-> 0, age |-> now]
NewClient == [tokens |-> 1, age |-> now]

\* cl.tokens < rl.maxTokens
HasTokens_OffByOne(c) == c.tokens <= maxTokens
HasTokens(c) == c.tokens < maxTokens

\* time.Since(cl.age) > rl.interval, in Allow
AllowExpired_AtInterval(c) == now - c.age >= interval
AllowExpired(c) == now - c.age > interval

\* cl.tokens = 1; cl.age = time.Now()
ResetClient_Full(c) == [tokens |-> maxTokens, age |-> now]
ResetClient(c) == [tokens |-> 1, age |-> now]

\* cl.tokens++
IncrementClient_Touch(c) == [tokens |-> c.tokens + 1, age |-> now]
IncrementClient(c) == [c EXCEPT !.tokens = c.tokens + 1]

\* The branch Allow takes for the caller holding the mutex.
AllowBranch(p) ==
    IF cl[p] = NoClient THEN "create"
    ELSE IF HasTokens(Deref(p)) THEN "increment"
    ELSE IF AllowExpired(Deref(p)) THEN "reset"
    ELSE "deny"

\* The client object after the branch.
AllowClient(p) ==
    CASE AllowBranch(p) = "create" -> NewClient
      [] AllowBranch(p) = "increment" -> IncrementClient(Deref(p))
      [] AllowBranch(p) = "reset" -> ResetClient(Deref(p))
      [] OTHER -> Deref(p)

\* The clients map after the branch: a create stores a new object under the
\* key, the other branches write through the pointer.
AllowClients_Alone(p) == [c \in {ip[p]} |-> AllowClient(p)]
AllowClients(p) ==
    IF AllowBranch(p) = "create" \/ ip[p] \in DOMAIN clients
    THEN [c \in DOMAIN clients \cup {ip[p]} |->
            IF c = ip[p] THEN AllowClient(p) ELSE clients[c]]
    ELSE clients

\* Allow, from the lookup to the deferred rl.mtx.Unlock().
AllowExit(p) ==
    /\ pc[p] = "locked"
    /\ clients' = AllowClients(p)
    /\ log' = [log EXCEPT ![ip[p]] = Append(@,
                  [t |-> now,
                   ok |-> AllowBranch(p) # "deny",
                   branch |-> AllowBranch(p),
                   tokens |-> AllowClient(p).tokens,
                   age |-> AllowClient(p).age,
                   sw |-> swept[ip[p]]])]
    /\ swept' = [swept EXCEPT ![ip[p]] = FALSE]
    /\ mtx' = NoOwner
    /\ pc' = [pc EXCEPT ![p] = "idle"]
    /\ cl' = [cl EXCEPT ![p] = NoClient]
    /\ ip' = [ip EXCEPT ![p] = NoIP]
    /\ UNCHANGED <<maxTokens, interval, now, cancelled, cleanPc,
                   tickerOn, nextTick, tickC>>

AllowReturn(p) == AllowExit(p) /\ UNCHANGED <<routeVars, extVars>>

\* The clock advances; a running ticker whose time has come sends a tick,
\* which is dropped when one is already waiting in the channel.
Tick ==
    /\ now < MaxTime
    /\ now' = now + 1
    /\ IF tickerOn /\ now + 1 >= nextTick
       THEN /\ tickC' = TRUE
            /\ nextTick' = nextTick + interval
       ELSE UNCHANGED <<tickC, nextTick>>
    /\ UNCHANGED <<maxTokens, interval, clients, mtx, cancelled, cleanPc,
                   tickerOn, pc, ip, cl, log, swept,
                   routeVars, extVars>>

\* The context given to NewRateLimiter (or the limiter's own) is cancelled.
Cancel ==
    /\ ~cancelled
    /\ cancelled' = TRUE
    /\ UNCHANGED <<maxTokens, interval, now, clients, mtx, cleanPc,
                   tickerOn, nextTick, tickC, pc, ip, cl, log, swept,
                   routeVars, extVars>>

\* Where the Done case of cleanup's select leaves the goroutine: return
AfterDone_Loop == "select"
AfterDone == "returned"

\* cleanup: case <-rl.ctx.Done(): tiker.Stop(); return
CleanupDone ==
    /\ cleanPc = "select"
    /\ cancelled
    /\ tickerOn' = FALSE
    /\ cleanPc' = AfterDone
    /\ UNCHANGED <<maxTokens, interval, now, clients, mtx, cancelled,
                   nextTick, tickC, pc, ip, cl, log, swept,
                   routeVars, extVars>>

\* cleanup: case <-tiker.C:
CleanupTick ==
    /\ cleanPc = "select"
    /\ tickC
    /\ tickC' = FALSE
    /\ cleanPc' = "lock"
    /\ UNCHANGED <<maxTokens, interval, now, clients, mtx, cancelled,
                   tickerOn, nextTick, pc, ip, cl, log, swept,
                   routeVars, extVars>>

\* cleanup: rl.mtx.Lock()
CleanupLock ==
    /\ cleanPc = "lock"
    /\ mtxFree
    /\ mtx' = CleanupOwner
    /\ cleanPc' = "sweep"
    /\ UNCHANGED <<maxTokens, interval, now, clients, cancelled,
                   tickerOn, nextTick, tickC, pc, ip, cl, log, swept,
                   routeVars, extVars>>

\* time.Since(cl.age) > rl.interval, in cleanup
SweepExpired_Always(c) == TRUE
SweepExpired_Twice(c) == now - c.age > 2 * interval
SweepExpired(c) == now - c.age > interval

\* The map after the range loop: delete(rl.clients, ip) for the expired
Swept_None(m) == m
Swept_Reset(m) ==
    [c \in DOMAIN m |-> IF SweepExpired(m[c]) THEN ResetClient(m[c]) ELSE m[c]]
Swept(m) == [c \in {d \in DOMAIN m : ~SweepExpired(m[d])} |-> m[c]]

\* cleanup: the range loop over rl.clients, then rl.mtx.Unlock()
CleanupSweep ==
    /\ cleanPc = "sweep"
    /\ clients' = Swept(clients)
    /\ mtx' = NoOwner
    /\ cleanPc' = "select"
    /\ swept' = [c \in DOMAIN swept |-> TRUE]
    /\ UNCHANGED <<maxTokens, interval, now, cancelled,
                   tickerOn, nextTick, tickC, pc, ip, cl, log,
                   routeVars, extVars>>

Next ==
    \/ \E p \in Callers, c \in ClientIds : AllowLock(p, c)
    \/ \E p \in Callers : AllowReturn(p)
    \/ Tick
    \/ Cancel
    \/ CleanupDone
    \/ CleanupTick
    \/ CleanupLock
    \/ CleanupSweep

Spec == Init /\ [][Next]_vars

\* ------------------------------------------------------------------------
\* route: parse, match, decodeArgs (route.go)
\* ------------------------------------------------------------------------

\* Bounds: the number of tokens of a template, the length of a request URI.
MaxTplTokens == 3
MaxPathLen == 4

\* uriSeparator
uriSeparator == "/"

\* The pieces templates are built from: the separator, a literal, two
\* well-formed named arguments and a lone opening brace.
TplTokens == {<<"/">>, <<"a">>, <<"{", "x", "}">>, <<"{", "y", "}">>, <<"{">>}
\* The characters of request URIs.
UriChars == {"/", "a"}
\* The characters regexp accepts in a capture name ([A-Za-z0-9_]), as far
\* as templates use them.
WordChars == {"a", "x", "y"}

RECURSIVE TplOfLen(_)
TplOfLen(n) ==
    IF n = 0 THEN {<<>>}
    ELSE {t \o k : t \in TplOfLen(n - 1), k \in TplTokens}

\* Route templates: a leading separator and up to MaxTplTokens pieces.
Templates ==
    {<<uriSeparator>> \o t : t \in UNION {TplOfLen(n) : n \in 0..MaxTplTokens}}

RECURSIVE StrOfLen(_)
StrOfLen(n) ==
    IF n = 0 THEN {<<>>}
    ELSE {t \o <<ch>> : t \in StrOfLen(n - 1), ch \in UriChars}

\* Request paths (req.URL.Path): a leading separator and up to MaxPathLen
\* characters.
Uris ==
    {<<uriSeparator>> \o u : u \in UNION {StrOfLen(n) : n \in 0..MaxPathLen}}

\* strings.Count(s, sep) for a one-character sep
Count(s, ch) == Cardinality({i \in 1..Len(s) : s[i] = ch})

\* strings.CutSuffix(s, uriSeparator)
CutSuffix(s) ==
    IF Len(s) >= 1 /\ s[Len(s)] = uriSeparator THEN SubSeq(s, 1, Len(s) - 1) ELSE s

\* The leftmost match of argsToRgx, (?U)\{(?P<arg_name>.+)\}, in s at or
\* after position from: <<p, q>> with s[p] = "{", s[q] = "}" the first
\* closing brace that leaves a non-empty name; <<>> when there is none.
FindArg(s, from) ==
    LET opens == {p \in from..Len(s) :
                    s[p] = "{" /\ \E q \in (p + 2)..Len(s) : s[q] = "}"}
    IN  IF opens = {} THEN <<>>
        ELSE LET p == SetMin(opens)
                 q == SetMin({r \in (p + 2)..Len(s) : s[r] = "}"})
             IN  <<p, q>>

\* argsToRgxSub, "(?P<$arg_name>.+)", expanded for a name
argsToRgxSub(name) == <<"(", "?", "P", "<">> \o name \o <<">", ".", "+", ")">>

\* argsToRgx.ReplaceAllString(r.path, argsToRgxSub), from position from on
RECURSIVE ReplaceAllArgs(_, _)
ReplaceAllArgs(s, from) ==
    LET m == FindArg(s, from)
    IN  IF m = <<>> THEN SubSeq(s, from, Len(s))
        ELSE SubSeq(s, from, m[1] - 1)
                \o argsToRgxSub(SubSeq(s, m[1] + 1, m[2] - 1))
                \o ReplaceAllArgs(s, m[2] + 1)

\* strings.ReplaceAll(rgx, "/", "\\/")
RECURSIVE EscapeSeparators(_)
EscapeSeparators(s) ==
    IF s = <<>> THEN <<>>
    ELSE (IF Head(s) = uriSeparator THEN <<"\\", uriSeparator>> ELSE <<Head(s)>>)
            \o EscapeSeparators(Tail(s))

\* fmt.Sprintf("%s$", escapedRgx): the source text handed to regexp.Compile
RgxSource(path) == EscapeSeparators(ReplaceAllArgs(path, 1)) \o <<"$">>

\* regexp.Compile on such a source: an escaped character and any other
\* plain character (braces that form no repetition included) match
\* themselves, (?P<name>.+) is a named group, $ is the end of the text.
RECURSIVE Compile(_, _)
Compile(src, i) ==
    IF i > Len(src) THEN <<>>
    ELSE IF src[i] = "\\"
    THEN <<[k |-> "lit", v |-> <<src[i + 1]>>]>> \o Compile(src, i + 2)
    ELSE IF src[i] = "("
    THEN LET e == SetMin({j \in i..Len(src) : src[j] = ">"})
         IN  <<[k |-> "arg", v |-> SubSeq(src, i + 4, e - 1)]>>
                \o Compile(src, e + 4)
    ELSE IF src[i] = "$"
    THEN <<[k |-> "end", v |-> <<>>]>> \o Compile(src, i + 1)
    ELSE <<[k |-> "lit", v |-> <<src[i]>>]>> \o Compile(src, i + 1)

\* regexp.Compile fails on a capture name that is empty or holds a
\* character outside [A-Za-z0-9_].
CompileOK(prog) ==
    \A i \in 1..Len(prog) :
        prog[i].k = "arg" =>
            /\ prog[i].v # <<>>
            /\ \A j \in 1..Len(prog[i].v) : prog[i].v[j] \in WordChars

NoRgx == [src |-> <<>>, prog |-> <<>>]
NoArgs == [n \in {} |-> <<>>]
NoMatch == [ok |-> FALSE, caps |-> <<>>, end |-> 0]

\* The regexp engine: the preferred match of prog from element k on against
\* s from position i on.  `.+` is greedy: the longest run of at least one
\* character (any character) after which the rest matches.
RECURSIVE MatchFrom(_, _, _, _)
MatchFrom(prog, k, s, i) ==
    IF k > Len(prog) THEN [ok |-> TRUE, caps |-> <<>>, end |-> i - 1]
    ELSE IF prog[k].k = "lit"
    THEN IF i <= Len(s) /\ s[i] = prog[k].v[1]
         THEN MatchFrom(prog, k + 1, s, i + 1) ELSE NoMatch
    ELSE IF prog[k].k = "end"
    THEN IF i = Len(s) + 1 THEN MatchFrom(prog, k + 1, s, i) ELSE NoMatch
    ELSE LET lens == {n \in 1..(Len(s) - i + 1) :
                        MatchFrom(prog, k + 1, s, i + n).ok}
         IN  IF lens = {} THEN NoMatch
             ELSE LET n == SetMax(lens)
                      rest == MatchFrom(prog, k + 1, s, i + n)
                  IN  [ok |-> TRUE,
                       caps |-> <<SubSeq(s, i, i + n - 1)>> \o rest.caps,
                       end |-> rest.end]

\* The positions of s at which prog matches (a regexp is not anchored at
\* the start of the text).
MatchStarts(prog, s) == {i \in 1..(Len(s) + 1) : MatchFrom(prog, 1, s, i).ok}

\* Regexp.MatchString
MatchString(prog, s) == MatchStarts(prog, s) # {}

\* Regexp.FindStringSubmatch: the leftmost match, as the matched text
\* followed by the text of each group; <<>> (nil) without a match.
FindStringSubmatch(prog, s) ==
    IF MatchStarts(prog, s) = {} THEN <<>>
    ELSE LET i == SetMin(MatchStarts(prog, s))
             m == MatchFrom(prog, 1, s, i)
         IN  <<SubSeq(s, i, m.end)>> \o m.caps

\* Regexp.SubexpNames: "" for the whole match, then the name of each group.
RECURSIVE GroupNames(_)
GroupNames(prog) ==
    IF prog = <<>> THEN <<>>
    ELSE (IF Head(prog).k = "arg" THEN <<Head(prog).v>> ELSE <<>>)
            \o GroupNames(Tail(prog))

SubexpNames(prog) == <<<<>>>> \o GroupNames(prog)

\* match: lenURI == lenRgx
SameDepth_Unchecked(r, requestURI) == TRUE
SameDepth(r, requestURI) ==
    Count(CutSuffix(requestURI), uriSeparator) = Count(r.src, uriSeparator)

\* route.match
match(r, requestURI) ==
    SameDepth(r, requestURI) /\ MatchString(r.prog, requestURI)

\* decodeArgs: uri, _ := strings.CutSuffix(requestURI, uriSeparator)
decodeArgsURI_Uncut(requestURI) == requestURI
decodeArgsURI(requestURI) == CutSuffix(requestURI)

\* decodeArgs: for i, name := range r.rgx.SubexpNames()[0:]
decodeArgsNames(r) == SubexpNames(r.prog)

\* route.decodeArgs: [args, ok]
decodeArgs(r, requestURI) ==
    IF ~match(r, requestURI) THEN [args |-> NoArgs, ok |-> FALSE]
    ELSE LET matches == FindStringSubmatch(r.prog, decodeArgsURI(requestURI))
             names == decodeArgsNames(r)
         IN  IF Len(matches) < 1 THEN [args |-> NoArgs, ok |-> FALSE]
             ELSE [args |-> [n \in {names[i] : i \in 1..Len(names)} |->
                        matches[SetMax({i \in 1..Len(names) : names[i] = n})]],
                   ok |-> TRUE]

\* The limiter does not run while routes are exercised.
LimiterIdle ==
    /\ maxTokens = 0
    /\ interval = 1
    /\ now = 0
    /\ clients = [c \in {} |-> NoClient]
    /\ mtx = NoOwner
    /\ cancelled = TRUE
    /\ cleanPc = "returned"
    /\ tickerOn = FALSE
    /\ nextTick = 0
    /\ tickC = FALSE
    /\ pc = [p \in Callers |-> "idle"]
    /\ ip = [p \in Callers |-> NoIP]
    /\ cl = [p \in Callers |-> NoClient]
    /\ log = [c \in AllClients |-> <<>>]
    /\ swept = [c \in AllClients |-> FALSE]

\* A route as HandleFunc creates it, &route{path: path}, and a request URI.
RouteInit ==
    /\ rpath \in Templates
    /\ uri \in Uris
    /\ rgx = NoRgx
    /\ rpc = "new"
    /\ matched = FALSE
    /\ decoded = [args |-> NoArgs, ok |-> FALSE]
    /\ LimiterIdle
    /\ HandlerIdle
    /\ MiddlewareIdle
    /\ GetIPIdle
    /\ ConcIdle
    /\ LegacyIdle

\* route.parse, regexp.Compile succeeding
ParseOK ==
    /\ rpc = "new"
    /\ CompileOK(Compile(RgxSource(rpath), 1))
    /\ rgx' = [src |-> RgxSource(rpath), prog |-> Compile(RgxSource(rpath), 1)]
    /\ rpc' = "parsed"
    /\ UNCHANGED <<rpath, uri, matched, decoded, rlVars, extVars>>

\* route.parse, regexp.Compile failing: "error parsing path"
ParseError ==
    /\ rpc = "new"
    /\ ~CompileOK(Compile(RgxSource(rpath), 1))
    /\ rpc' = "failed"
    /\ UNCHANGED <<rpath, uri, rgx, matched, decoded, rlVars, extVars>>

\* route.match on the request URI
Match ==
    /\ rpc = "parsed"
    /\ matched' = match(rgx, uri)
    /\ rpc' = "matched"
    /\ UNCHANGED <<rpath, uri, rgx, decoded, rlVars, extVars>>

\* route.decodeArgs on the request URI
DecodeArgs ==
    /\ rpc = "matched"
    /\ decoded' = decodeArgs(rgx, uri)
    /\ rpc' = "decoded"
    /\ UNCHANGED <<rpath, uri, rgx, matched, rlVars, extVars>>

RouteNext ==
    \/ ParseOK
    \/ ParseError
    \/ Match
    \/ DecodeArgs

RouteSpec == RouteInit /\ [][RouteNext]_vars

\* ------------------------------------------------------------------------
\* Properties of the rate limiter (checked under Spec)
\* ------------------------------------------------------------------------

\* The indices of the Allow calls of client c, in the order they were served.
Calls(c) == 1..Len(log[c])

\* The number of calls i..j of client c that returned true.
Admitted(c, i, j) == Cardinality({k \in i..j : log[c][k].ok})

\* C1: burst-then-deny.  With maxTokens = K >= 1, of the consecutive Allow
\* calls of a client that start with one finding no entry and that are all
\* served within `interval` of that first one, the first K return true and
\* the (K+1)-th returns false, sweeps in between or not.
C1_BurstThenDeny ==
    maxTokens >= 1 =>
        \A c \in ClientIds : \A i \in Calls(c) :
            log[c][i].branch = "create" =>
                \A j \in Calls(c) :
                    (j >= i /\ log[c][j].t - log[c][i].t <= interval) =>
                        /\ (j - i + 1 <= maxTokens => log[c][j].ok)
                        /\ (j - i + 1 = maxTokens + 1 => ~log[c][j].ok)

\* A burst of K+1 calls, K >= 2, within the interval, with a sweep pass
\* between two of them, the last one denied.
C1_Witness ==
    /\ maxTokens >= 2
    /\ \E c \in ClientIds : \E i \in Calls(c) :
        /\ log[c][i].branch = "create"
        /\ i + maxTokens \in Calls(c)
        /\ log[c][i + maxTokens].t - log[c][i].t <= interval
        /\ ~log[c][i + maxTokens].ok
        /\ \E k \in (i + 1)..(i + maxTokens) : log[c][k].sw

\* C2: with maxTokens = 1, of the Allow calls for one client that race
\* from a moment the client has no entry and are served within `interval`,
\* exactly one returns true, whatever the interleaving of callers and
\* cleanup.
C2_OneWinner ==
    maxTokens = 1 =>
        \A c \in ClientIds : \A i \in Calls(c) :
            log[c][i].branch = "create" =>
                \A j \in Calls(c) :
                    (j >= i /\ log[c][j].t - log[c][i].t <= interval) =>
                        Admitted(c, i, j) = 1

\* Two calls for an unseen client served in the same instant, one admitted
\* and one denied, while a further caller already holds the mutex for the
\* same client in that instant.
C2_Witness ==
    /\ maxTokens = 1
    /\ \E c \in ClientIds :
        /\ Len(log[c]) >= 2
        /\ log[c][1].branch = "create"
        /\ log[c][1].ok
        /\ ~log[c][2].ok
        /\ log[c][2].t = log[c][1].t
        /\ \E p \in Callers :
            pc[p] = "locked" /\ ip[p] = c /\ now = log[c][1].t

\* C3: the rate contract of the documentation: in every window of length
\* `interval` (here: starting at any served call) at most maxTokens calls
\* of a client return true.
C3_RateContract ==
    maxTokens >= 1 =>
        \A c \in ClientIds : \A i \in Calls(c) :
            Cardinality({j \in Calls(c) :
                /\ j >= i
                /\ log[c][j].ok
                /\ log[c][j].t - log[c][i].t <= interval}) <= maxTokens

\* The first call after call i of client c that is served when the entry
\* denied at call i has become older than `interval`.
FirstAfterExpiry(c, i, j) ==
    /\ j > i
    /\ log[c][j].t - log[c][i].age > interval
    /\ \A k \in (i + 1)..(j - 1) : log[c][k].t - log[c][i].age <= interval

\* C4: window reset.  After a denied call, the first call of the client
\* served once now - age > interval returns true and leaves tokens = 1 and
\* age = now, be it by the reset in Allow or after the sweep deleted the
\* entry.
C4_WindowReset ==
    \A c \in ClientIds : \A i \in Calls(c) : \A j \in Calls(c) :
        (~log[c][i].ok /\ FirstAfterExpiry(c, i, j)) =>
            /\ log[c][j].ok
            /\ log[c][j].tokens = 1
            /\ log[c][j].age = log[c][j].t

\* A denied client with maxTokens >= 2 that Allow resets in place.
C4_Witness ==
    /\ maxTokens >= 2
    /\ \E c \in ClientIds : \E i \in Calls(c) : \E j \in Calls(c) :
        /\ ~log[c][i].ok
        /\ FirstAfterExpiry(c, i, j)
        /\ log[c][j].branch = "reset"
        /\ c \in DOMAIN clients

\* The client's last Allow call was served more than `interval` ago.
Idle(c) == Len(log[c]) > 0 /\ now - log[c][Len(log[c])].t > interval

\* C5: idle eviction.  While the context is not cancelled, a sweep pass
\* leaves no entry for a client whose last Allow call is more than
\* `interval` old.
C5_IdleEviction ==
    [][(cleanPc = "sweep" /\ cleanPc' = "select" /\ ~cancelled) =>
          \A c \in ClientIds : Idle(c) => c \notin DOMAIN clients']_vars

\* An idle client whose entry a sweep pass has just removed.
C5_Witness ==
    /\ ~cancelled
    /\ cleanPc = "select"
    /\ \E c \in ClientIds : Idle(c) /\ swept[c] /\ c \notin DOMAIN clients

\* ------------------------------------------------------------------------
\* Properties of route.match and route.decodeArgs (checked under RouteSpec)
\* ------------------------------------------------------------------------

\* strings.Split(s, "/"): the '/'-delimited segments of s.
RECURSIVE Split(_)
Split(s) ==
    LET seps == {i \in 1..Len(s) : s[i] = uriSeparator}
    IN  IF seps = {} THEN <<s>>
        ELSE <<SubSeq(s, 1, SetMin(seps) - 1)>>
                \o Split(SubSeq(s, SetMin(seps) + 1, Len(s)))

\* The segments of the template, and of the request URI after one trailing
\* '/' is stripped.
TplSegs == Split(rpath)
UriSegs == Split(CutSuffix(uri))

\* A template segment that is one named argument, {name}.
IsArgSeg(seg) ==
    /\ Len(seg) >= 3
    /\ seg[1] = "{"
    /\ seg[Len(seg)] = "}"
    /\ \A j \in 2..(Len(seg) - 1) : seg[j] \in WordChars

ArgName(seg) == SubSeq(seg, 2, Len(seg) - 1)

\* The request URI has an empty segment where the template has an argument.
EmptyArgSegment ==
    \E k \in 1..Len(TplSegs) :
        k <= Len(UriSegs) /\ IsArgSeg(TplSegs[k]) /\ UriSegs[k] = <<>>

\* match (resp. decodeArgs) has run on the route and the request URI.
MatchRan == rpc \in {"matched", "decoded"}
DecodeRan == rpc = "decoded"

C7_EmptySegmentNoMatch ==
    (MatchRan /\ EmptyArgSegment) => ~matched

\* C8: decodeArgs reports no match for every request URI with an empty
\* segment at the position of an argument, and never binds an argument to
\* the empty string or to a value that holds a '/'.
C8_DecodeRejectsEmpty ==
    DecodeRan =>
        /\ EmptyArgSegment => ~decoded.ok
        /\ decoded.ok =>
            \A n \in DOMAIN decoded.args :
                n # <<>> =>
                    /\ decoded.args[n] # <<>>
                    /\ \A j \in 1..Len(decoded.args[n]) :
                          decoded.args[n][j] # uriSeparator

\* A URI ending in "//" with an empty last segment under an argument:
\* match accepts it and decodeArgs rejects it.
C8_Witness ==
    /\ DecodeRan
    /\ EmptyArgSegment
    /\ Len(uri) >= 2
    /\ uri[Len(uri)] = uriSeparator
    /\ uri[Len(uri) - 1] = uriSeparator
    /\ matched
    /\ ~decoded.ok

\* C9: decodeArgs reports a match exactly when match returns true.
C9_MatchDecodeAgree ==
    DecodeRan => (decoded.ok <=> matched)

\* The argument names the template declares.
DeclaredNames == {GroupNames(rgx.prog)[i] : i \in 1..Len(GroupNames(rgx.prog))}

\* C10: when decodeArgs succeeds, the keys of the mapping are exactly the
\* argument names the template declares, and each argument segment's name
\* (declared once) is bound to the URI segment at its position.
C10_ExactArgs ==
    (DecodeRan /\ decoded.ok) =>
        /\ DOMAIN decoded.args = DeclaredNames
        /\ \A k \in 1..Len(TplSegs) :
              (/\ IsArgSeg(TplSegs[k])
               /\ Cardinality({i \in 1..Len(GroupNames(rgx.prog)) :
                     GroupNames(rgx.prog)[i] = ArgName(TplSegs[k])}) = 1)
              => decoded.args[ArgName(TplSegs[k])] = UriSegs[k]

\* The request URI followed by one more '/'.
UriSlash == uri \o <<uriSeparator>>

\* C11: trailing-slash normalization.  For a compiled template and a path p
\* that does not end in '/', match(p + "/") equals match(p), and when they
\* match decodeArgs returns the same result for both.
C11_TrailingSlash ==
    (DecodeRan /\ uri[Len(uri)] # uriSeparator) =>
        /\ match(rgx, UriSlash) = matched
        /\ matched => decodeArgs(rgx, UriSlash) = decoded

\* ------------------------------------------------------------------------
\* Handler: HandleFunc, find, ServeHTTP (handler.go)
\* ------------------------------------------------------------------------

\* Bound: the number of routes registered.
MaxRoutes == 2

\* supportedMethods
supportedMethods ==
    <<"GET", "HEAD", "POST", "PUT", "PATCH", "DELETE", "CONNECT", "OPTIONS",
      "TRACE">>

\* The methods, paths and handlers HandleFunc is called with, and the
\* methods and paths of requests.
RegMethods == {"GET", "OPTIONS", "wrongmethod"}
RegPaths ==
    {<<"/">>, <<"/", "a">>, <<"/", "{", "x", "}">>, <<"/", "{", "{", "x", "}">>}
HandlerIds == {"h1", "h2"}
ReqMethods == {"GET", "OPTIONS"}
ReqPaths == RegPaths \cup {<<"/", "a", "/">>}

\* HandleFunc: supported == method for some supported method
Supported_Any(method) == TRUE
Supported(method) ==
    \E i \in 1..Len(supportedMethods) : supportedMethods[i] = method

\* HandleFunc: newRoute := &route{method, path, handler} and newRoute.parse()
NewRoute(method, path, handler) ==
    [method |-> method, path |-> path,
     rgx |-> [src |-> RgxSource(path), prog |-> Compile(RgxSource(path), 1)],
     handler |-> handler]

\* HandleFunc: newRoute.parse() returned an error
ParseFails_Never(path) == FALSE
ParseFails(path) == ~CompileOK(Compile(RgxSource(path), 1))

\* HandleFunc: r.method == method && r.path == path
SameRoute_Never(r, method, path) == FALSE
SameRoute(r, method, path) == r.method = method /\ r.path = path

\* HandleFunc: the indexes of the registered routes for the method and path
Registered(rs, method, path) ==
    {i \in 1..Len(rs) : SameRoute(rs[i], method, path)}

\* find: r.method == method
FindMethod_Any(r, method) == TRUE
FindMethod(r, method) == r.method = method

\* Handler.find: the loop over m.routes from index i on
RECURSIVE findFrom(_, _, _, _)
findFrom(rs, i, method, requestURI) ==
    IF i > Len(rs) THEN [route |-> NoRoute, exist |-> FALSE]
    ELSE IF FindMethod(rs[i], method) /\ match(rs[i].rgx, requestURI)
    THEN [route |-> rs[i], exist |-> TRUE]
    ELSE findFrom(rs, i + 1, method, requestURI)

find(rs, method, requestURI) == findFrom(rs, 1, method, requestURI)

\* textproto.CanonicalMIMEHeaderKey on a name of word characters: the first
\* letter in upper case.
UpperCase(ch) ==
    IF ch = "a" THEN "A" ELSE IF ch = "x" THEN "X" ELSE IF ch = "y" THEN "Y"
    ELSE ch

CanonicalKey(name) ==
    IF name = <<>> THEN name ELSE <<UpperCase(name[1])>> \o Tail(name)

\* The headers left by "for key, val := range args { req.Header.Set(key,
\* val) }" on a request that carried none of them: one value per canonical
\* key, the value of the name set last.
HeadersSet(args) ==
    LET keys == {CanonicalKey(n) : n \in DOMAIN args}
        vals == {args[n] : n \in DOMAIN args}
    IN  {h \in [keys -> vals] :
            \A k \in keys : \E n \in DOMAIN args :
                CanonicalKey(n) = k /\ h[k] = args[n]}

\* http.Header.Get: "" when the header is not set
HeaderGet(h, name) ==
    IF CanonicalKey(name) \in DOMAIN h THEN h[CanonicalKey(name)] ELSE <<>>

\* NewHandler(cfg)
NewHandler ==
    /\ cors \in BOOLEAN
    /\ limited \in BOOLEAN
    /\ routes = <<>>
    /\ hmtx = "free"
    /\ reg = NoCall
    /\ lastReg = NoReg
    /\ srv = NoRequest
    /\ resp = NoResponse

\* HandleFunc as a whole: the routes it leaves
RegisterResult(rs, method, path, handler) ==
    IF ~Supported(method) \/ ParseFails(path) THEN rs
    ELSE IF Registered(rs, method, path) # {}
    THEN [rs EXCEPT ![SetMin(Registered(rs, method, path))] =
                        NewRoute(method, path, handler)]
    ELSE Append(rs, NewRoute(method, path, handler))

\* The routes a handler can hold after at most n HandleFunc calls.
RECURSIVE RoutesAfter(_)
RoutesAfter(n) ==
    IF n = 0 THEN {<<>>}
    ELSE RoutesAfter(n - 1) \cup
            {RegisterResult(rs, m, p, h) :
                rs \in RoutesAfter(n - 1), m \in RegMethods, p \in RegPaths,
                h \in HandlerIds}

\* Registration: handler := NewHandler(nil), then HandleFunc calls.
RegisterInit ==
    /\ NewHandler
    /\ ~cors
    /\ ~limited
    /\ LimiterIdle
    /\ RouteIdle
    /\ MiddlewareIdle
    /\ GetIPIdle
    /\ ConcIdle
    /\ LegacyIdle

\* Dispatch: a handler with its routes registered serves a request.
ServeInit ==
    /\ cors \in BOOLEAN
    /\ limited \in BOOLEAN
    /\ routes \in RoutesAfter(MaxRoutes)
    /\ hmtx = "free"
    /\ reg = NoCall
    /\ lastReg = NoReg
    /\ srv = NoRequest
    /\ resp = NoResponse
    /\ LimiterIdle
    /\ RouteIdle
    /\ MiddlewareIdle
    /\ GetIPIdle
    /\ ConcIdle
    /\ LegacyIdle

\* HandleFunc with a method that is not supported: "method not allowed"
HandleFuncReject(method, path, handler) ==
    /\ reg.pc = "idle"
    /\ ~Supported(method)
    /\ lastReg' = [method |-> method, path |-> path,
                   err |-> "method not allowed", replaced |-> FALSE]
    /\ UNCHANGED <<cors, limited, routes, hmtx, reg, srv, resp,
                   rlVars, routeVars, mw, gip, concVars, legacyVars>>

\* HandleFunc with a supported method: m.mtx.Lock()
HandleFuncLock(method, path, handler) ==
    /\ reg.pc = "idle"
    /\ Supported(method)
    /\ \/ Len(routes) < MaxRoutes
       \/ Registered(routes, method, path) # {}
       \/ ParseFails(path)
    /\ hmtx = "free"
    /\ hmtx' = "HandleFunc"
    /\ reg' = [pc |-> "locked", method |-> method, path |-> path,
               handler |-> handler]
    /\ UNCHANGED <<cors, limited, routes, lastReg, srv, resp,
                   rlVars, routeVars, mw, gip, concVars, legacyVars>>

\* HandleFunc: parse fails, "error registering route"; the deferred Unlock
HandleFuncParseError ==
    /\ reg.pc = "locked"
    /\ ParseFails(reg.path)
    /\ lastReg' = [method |-> reg.method, path |-> reg.path,
                   err |-> "error registering route", replaced |-> FALSE]
    /\ reg' = NoCall
    /\ hmtx' = "free"
    /\ UNCHANGED <<cors, limited, routes, srv, resp,
                   rlVars, routeVars, mw, gip, concVars, legacyVars>>

\* HandleFunc: a route for the method and path exists, m.routes[i] = newRoute
HandleFuncReplace ==
    /\ reg.pc = "locked"
    /\ ~ParseFails(reg.path)
    /\ Registered(routes, reg.method, reg.path) # {}
    /\ routes' = [routes EXCEPT
                    ![SetMin(Registered(routes, reg.method, reg.path))] =
                        NewRoute(reg.method, reg.path, reg.handler)]
    /\ lastReg' = [method |-> reg.method, path |-> reg.path,
                   err |-> "nil", replaced |-> TRUE]
    /\ reg' = NoCall
    /\ hmtx' = "free"
    /\ UNCHANGED <<cors, limited, srv, resp, rlVars, routeVars, mw, gip, concVars, legacyVars>>

\* HandleFunc: no such route, m.routes = append(m.routes, newRoute)
HandleFuncAppend ==
    /\ reg.pc = "locked"
    /\ ~ParseFails(reg.path)
    /\ Registered(routes, reg.method, reg.path) = {}
    /\ routes' = Append(routes, NewRoute(reg.method, reg.path, reg.handler))
    /\ lastReg' = [method |-> reg.method, path |-> reg.path,
                   err |-> "nil", replaced |-> FALSE]
    /\ reg' = NoCall
    /\ hmtx' = "free"
    /\ UNCHANGED <<cors, limited, srv, resp, rlVars, routeVars, mw, gip, concVars, legacyVars>>

\* A request arrives while no other is being served.
Arrives == srv.pc = "idle"

\* ServeHTTP: the CORS branch answers the request (cors and OPTIONS)
Preflight_Never(method) == FALSE
Preflight(method) == cors /\ method = "OPTIONS"

\* ServeHTTP: the tokens that limiter.Allow() takes from the limiter of the
\* request's client when it reports true: one if a rate limiter is
\* configured, none if m.rateLimiter is nil (Allow is not called).
Consumes_None == IF limited THEN srv.consumed ELSE 0
Consumes == IF limited THEN 1 ELSE 0

\* ServeHTTP: the rate limiter is enabled and limiter.Allow() is false: 429
ServeDenied(method, path) ==
    /\ Arrives
    /\ limited
    /\ srv' = [NoRequest EXCEPT !.pc = "done", !.method = method,
                                !.path = path]
    /\ resp' = [NoResponse EXCEPT !.status = 429]
    /\ UNCHANGED <<cors, limited, routes, hmtx, reg, lastReg,
                   rlVars, routeVars, mw, gip, concVars, legacyVars>>

\* ServeHTTP: admitted, CORS enabled and the method is OPTIONS: 200
ServePreflight(method, path) ==
    /\ Arrives
    /\ Preflight(method)
    /\ srv' = [NoRequest EXCEPT !.pc = "done", !.method = method,
                                !.path = path, !.admitted = TRUE,
                                !.consumed = Consumes]
    /\ resp' = [NoResponse EXCEPT !.status = 200]
    /\ UNCHANGED <<cors, limited, routes, hmtx, reg, lastReg,
                   rlVars, routeVars, mw, gip, concVars, legacyVars>>

\* ServeHTTP: admitted, m.find(req.Method, req.URL.Path): m.mtx.Lock()
ServeFindLock(method, path) ==
    /\ Arrives
    /\ ~Preflight(method)
    /\ hmtx = "free"
    /\ hmtx' = "find"
    /\ srv' = [NoRequest EXCEPT !.pc = "find", !.method = method,
                                !.path = path, !.admitted = TRUE,
                                !.consumed = Consumes]
    /\ resp' = NoResponse
    /\ UNCHANGED <<cors, limited, routes, reg, lastReg,
                   rlVars, routeVars, mw, gip, concVars, legacyVars>>

\* find: the loop over m.routes and the deferred Unlock
ServeFind ==
    /\ srv.pc = "find"
    /\ srv' = [srv EXCEPT !.pc = "found",
                          !.found = find(routes, srv.method, srv.path)]
    /\ hmtx' = "free"
    /\ UNCHANGED <<cors, limited, routes, reg, lastReg, resp,
                   rlVars, routeVars, mw, gip, concVars, legacyVars>>

\* ServeHTTP: the route exists and decodeArgs is ok: the arguments are set
\* as request headers and route.handler is called
ServeHandle ==
    /\ srv.pc = "found"
    /\ srv.found.exist
    /\ decodeArgs(srv.found.route.rgx, srv.path).ok
    /\ \E h \in HeadersSet(decodeArgs(srv.found.route.rgx, srv.path).args) :
          resp' = [status |-> 200,
                   invoked |-> Append(resp.invoked, srv.found.route.handler),
                   hdr |-> h]
    /\ srv' = [srv EXCEPT !.pc = "done"]
    /\ UNCHANGED <<cors, limited, routes, hmtx, reg, lastReg,
                   rlVars, routeVars, mw, gip, concVars, legacyVars>>

\* ServeHTTP: no route, or decodeArgs is not ok: 405
ServeNotAllowed ==
    /\ srv.pc = "found"
    /\ ~(srv.found.exist /\ decodeArgs(srv.found.route.rgx, srv.path).ok)
    /\ resp' = [resp EXCEPT !.status = 405]
    /\ srv' = [srv EXCEPT !.pc = "done"]
    /\ UNCHANGED <<cors, limited, routes, hmtx, reg, lastReg,
                   rlVars, routeVars, mw, gip, concVars, legacyVars>>

RegisterNext ==
    \/ \E m \in RegMethods, p \in RegPaths, h \in HandlerIds :
          HandleFuncReject(m, p, h)
    \/ \E m \in RegMethods, p \in RegPaths, h \in HandlerIds :
          HandleFuncLock(m, p, h)
    \/ HandleFuncParseError
    \/ HandleFuncReplace
    \/ HandleFuncAppend

RegisterSpec == RegisterInit /\ [][RegisterNext]_vars

ServeNext ==
    \/ \E m \in ReqMethods, p \in ReqPaths : ServeDenied(m, p)
    \/ \E m \in ReqMethods, p \in ReqPaths : ServePreflight(m, p)
    \/ \E m \in ReqMethods, p \in ReqPaths : ServeFindLock(m, p)
    \/ ServeFind
    \/ ServeHandle
    \/ ServeNotAllowed

ServeSpec == ServeInit /\ [][ServeNext]_vars

\* ------------------------------------------------------------------------
\* Properties of HandleFunc (checked under RegisterSpec)
\* ------------------------------------------------------------------------

\* The step is the return of a HandleFunc call that had taken the mutex.
LockedReturn == reg.pc = "locked" /\ reg'.pc = "idle"

\* The step is the return of a HandleFunc call made with the method.
ReturnFor(method) ==
    \/ LockedReturn /\ reg.method = method
    \/ reg.pc = "idle" /\ reg'.pc = "idle" /\ lastReg' # lastReg
          /\ lastReg'.method = method

\* The indexes of the routes of rs with the method and path.
KeyAt(rs, method, path) ==
    {i \in 1..Len(rs) : rs[i].method = method /\ rs[i].path = path}

\* The HTTP methods a route can be registered for.
HTTPMethods ==
    {"GET", "HEAD", "POST", "PUT", "PATCH", "DELETE", "CONNECT", "OPTIONS",
     "TRACE"}

\* The paths among RegPaths that do not compile: "{{" opens an argument
\* whose name starts with "{".
InvalidPaths ==
    {p \in RegPaths : \E i \in 1..(Len(p) - 1) : p[i] = "{" /\ p[i + 1] = "{"}

\* C12: registration idempotence.  When HandleFunc(m, t, h) returns nil the
\* routes hold exactly one route for (m, t), bound to h; if one was there
\* before the call it keeps its index and the number of routes; every other
\* route is unchanged and stays at its index.
C12_Idempotent ==
    [][(LockedReturn /\ lastReg'.err = "nil") =>
          /\ Cardinality(KeyAt(routes', reg.method, reg.path)) = 1
          /\ \A i \in KeyAt(routes', reg.method, reg.path) :
                routes'[i].handler = reg.handler
          /\ KeyAt(routes, reg.method, reg.path) # {} =>
                /\ KeyAt(routes', reg.method, reg.path)
                      = KeyAt(routes, reg.method, reg.path)
                /\ Len(routes') = Len(routes)
          /\ \A i \in 1..Len(routes) :
                i \notin KeyAt(routes, reg.method, reg.path)
                    => routes'[i] = routes[i]]_vars

\* A second registration that replaced the first of two routes.
C12_Witness ==
    /\ lastReg.err = "nil"
    /\ lastReg.replaced
    /\ Len(routes) = 2
    /\ KeyAt(routes, lastReg.method, lastReg.path) = {1}
    /\ routes[1].handler = "h2"

\* C13: unsupported method.  A HandleFunc call with a method outside the
\* nine HTTP methods returns an error and leaves the routes as they were.
C13_UnsupportedMethod ==
    [][\A m \in RegMethods \ HTTPMethods :
          ReturnFor(m) => (lastReg'.err # "nil" /\ routes' = routes)]_vars

\* An unsupported method was refused by a handler that holds a route.
C13_Witness ==
    /\ lastReg.err = "method not allowed"
    /\ lastReg.method \notin HTTPMethods
    /\ Len(routes) >= 1

\* C14 as stated: after HandleFunc failed on a path that does not compile, a
\* find for that path string reports no route.
C14_InvalidTemplateNotFound ==
    lastReg.err = "error registering route" =>
        ~find(routes, lastReg.method, lastReg.path).exist

\* C14, amended: a HandleFunc call with a supported method and a path that
\* does not compile returns "error registering route", leaves the routes as
\* they were and the mutex free, and a find for that path string returns no
\* route registered under that path.
C14_InvalidTemplate ==
    [][(LockedReturn /\ reg.path \in InvalidPaths) =>
          /\ lastReg'.err = "error registering route"
          /\ routes' = routes
          /\ hmtx' = "free"
          /\ find(routes', reg.method, reg.path).route.path # reg.path]_vars

\* A failed registration whose path string another registered route matches.
C14_Witness ==
    /\ lastReg.err = "error registering route"
    /\ lastReg.path \in InvalidPaths
    /\ hmtx = "free"
    /\ find(routes, lastReg.method, lastReg.path).exist

\* C16: after HandleFunc(method, path, h) returned nil, find(method, path),
\* with the template itself as request path, finds a route.
C16_FindableByTemplate ==
    lastReg.err = "nil" => find(routes, lastReg.method, lastReg.path).exist

\* ------------------------------------------------------------------------
\* Properties of find and ServeHTTP (checked under ServeSpec)
\* ------------------------------------------------------------------------

\* The indexes of the routes registered for the request's method whose
\* match accepts the request's path.
Matching ==
    {i \in 1..Len(routes) :
        routes[i].method = srv.method /\ match(routes[i].rgx, srv.path)}

\* find has returned to ServeHTTP.
FindRan == srv.pc = "found" \/ (srv.pc = "done" /\ srv.found.exist)

\* C15: first-match lookup.  find returns the route of smallest index whose
\* method is the request's and whose match accepts the path, and (nil,
\* false) exactly when there is none.
C15_FirstMatch ==
    FindRan =>
        IF Matching = {}
        THEN srv.found = [route |-> NoRoute, exist |-> FALSE]
        ELSE /\ srv.found.exist
             /\ srv.found.route = routes[SetMin(Matching)]
             /\ srv.found.route.method = srv.method

\* Two routes accept the request and find returned the first.
C15_Witness ==
    /\ srv.pc = "found"
    /\ Len(routes) = 2
    /\ Matching = {1, 2}
    /\ srv.found.exist
    /\ srv.found.route = routes[1]

\* C17: dispatch outcomes.  A ServeHTTP call ends in exactly one of: 429
\* and no handler when admission is denied; the handler of the first
\* matching route called once when admitted and a route matches; 405 and no
\* handler when admitted and no route matches.
C17_DispatchOutcomes ==
    srv.pc = "done" =>
        \/ /\ ~srv.admitted
           /\ resp.status = 429
           /\ resp.invoked = <<>>
        \/ /\ srv.admitted
           /\ Matching # {}
           /\ resp.invoked = <<routes[SetMin(Matching)].handler>>
        \/ /\ srv.admitted
           /\ Matching = {}
           /\ resp.status = 405
           /\ resp.invoked = <<>>

\* The names a handler may look up.
LookupNames == {<<"x">>, <<"y">>}

\* C20: parameter hand-off.  In the handler that was called, the lookup of a
\* name the template declares gives the value captured for it, and the
\* lookup of a name the template does not declare does not give the empty
\* string.
C20_ParamHandOff ==
    (srv.pc = "done" /\ resp.invoked # <<>>) =>
        LET r == srv.found.route.rgx
            declared == {GroupNames(r.prog)[i] : i \in 1..Len(GroupNames(r.prog))}
        IN  /\ \A n \in declared :
                  HeaderGet(resp.hdr, n) = decodeArgs(r, srv.path).args[n]
            /\ \A n \in LookupNames \ declared :
                  HeaderGet(resp.hdr, n) # <<>>

\* ------------------------------------------------------------------------
\* RateLimiter.Middleware (rate_limiter.go)
\* ------------------------------------------------------------------------

\* The requests go through rl.Middleware(next) of a limiter whose context
\* is cancelled and whose cleanup goroutine has returned.
MiddlewareInit ==
    /\ maxTokens \in 0..MaxTokensBound
    /\ interval \in 1..MaxIntervalBound
    /\ now = 0
    /\ clients = [c \in {} |-> NoClient]
    /\ mtx = NoOwner
    /\ cancelled = TRUE
    /\ cleanPc = "returned"
    /\ tickerOn = FALSE
    /\ nextTick = interval
    /\ tickC = FALSE
    /\ pc = [p \in Callers |-> "idle"]
    /\ ip = [p \in Callers |-> NoIP]
    /\ cl = [p \in Callers |-> NoClient]
    /\ log = [c \in AllClients |-> <<>>]
    /\ swept = [c \in AllClients |-> FALSE]
    /\ MiddlewareIdle
    /\ GetIPIdle
    /\ ConcIdle
    /\ LegacyIdle
    /\ RouteIdle
    /\ HandlerIdle

\* The wrapped handler: if !rl.Allow(r)
MwRejects_Never(ok) == FALSE
MwRejects(ok) == ~ok

\* The wrapped handler is called with a request and calls rl.Allow(r).
MiddlewareAllow(p, c) ==
    /\ mw[p].pc = "idle"
    /\ AllowEnter(p, c)
    /\ mw' = [mw EXCEPT ![p] = [NoMw EXCEPT !.pc = "allow", !.allows = 1]]
    /\ UNCHANGED <<routeVars, handlerVars, gip, concVars, legacyVars>>

\* rl.Allow(r) returns to the wrapped handler.
MiddlewareAllowReturn(p) ==
    /\ mw[p].pc = "allow"
    /\ AllowExit(p)
    /\ mw' = [mw EXCEPT ![p] = [@ EXCEPT !.pc = "back",
                                         !.ok = AllowBranch(p) # "deny"]]
    /\ UNCHANGED <<routeVars, handlerVars, gip, concVars, legacyVars>>

\* http.Error(w, "Rate limit exceeded", http.StatusTooManyRequests); return
MiddlewareDenied(p) ==
    /\ mw[p].pc = "back"
    /\ MwRejects(mw[p].ok)
    /\ mw' = [mw EXCEPT ![p] = [@ EXCEPT !.pc = "idle", !.status = 429]]
    /\ UNCHANGED <<rlVars, routeVars, handlerVars, gip, concVars, legacyVars>>

\* next(w, r); the test's next handler answers 200
MiddlewareCallsNext(p) ==
    /\ mw[p].pc = "back"
    /\ ~MwRejects(mw[p].ok)
    /\ mw' = [mw EXCEPT ![p] = [@ EXCEPT !.pc = "idle", !.status = 200,
                                         !.nexts = @ + 1]]
    /\ UNCHANGED <<rlVars, routeVars, handlerVars, gip, concVars, legacyVars>>

MiddlewareStep ==
    \/ \E p \in Callers, c \in ClientIds : MiddlewareAllow(p, c)
    \/ \E p \in Callers : MiddlewareAllowReturn(p)
    \/ \E p \in Callers : MiddlewareDenied(p)
    \/ \E p \in Callers : MiddlewareCallsNext(p)
    \/ Tick

MiddlewareSpec == MiddlewareInit /\ [][MiddlewareStep]_vars

\* C18: the wrapped handler calls Allow once per request; when Allow
\* returned false the request is answered 429 and next is not called; when
\* Allow returned true next is called exactly once.
C18_Middleware ==
    \A p \in Callers :
        /\ mw[p].allows <= 1
        /\ mw[p].pc # "idle" => (mw[p].nexts = 0 /\ mw[p].status = 0)
        /\ (mw[p].pc = "idle" /\ mw[p].allows = 1) =>
              /\ mw[p].ok => (mw[p].nexts = 1 /\ mw[p].status # 429)
              /\ ~mw[p].ok => (mw[p].nexts = 0 /\ mw[p].status = 429)

\* One request was refused with 429 and another was passed to next.
C18_Witness ==
    \E p, q \in Callers :
        /\ mw[p].pc = "idle" /\ mw[p].allows = 1 /\ ~mw[p].ok
        /\ mw[p].status = 429 /\ mw[p].nexts = 0
        /\ mw[q].pc = "idle" /\ mw[q].ok /\ mw[q].nexts = 1

\* ------------------------------------------------------------------------
\* getIP (rate_limiter.go)
\* ------------------------------------------------------------------------

\* Number of tokens an X-Forwarded-For value is built from.
MaxXffTokens == 3

\* Strings are sequences of characters.
XffTokens ==
    { <<"1", ".", "1", ".", "1", ".", "1">>, <<":", ":", "1">>, <<"1">>,
      <<".">>, <<":">>, <<",">>, <<" ">>, <<"h">> }

RECURSIVE XffOfLen(_)
XffOfLen(n) ==
    IF n = 0 THEN {<<>>}
    ELSE {t \o k : t \in XffOfLen(n - 1), k \in XffTokens}

\* r.Header.Get("X-Forwarded-For"): "" when the header is absent.
Forwardeds == UNION {XffOfLen(n) : n \in 0..MaxXffTokens}

\* r.RemoteAddr
RemoteAddrs ==
    { <<"1", ".", "1", ".", "1", ".", "1", ":", "8">>,
      <<"1", ".", "1", ".", "1", ".", "1">>,
      <<"[", ":", ":", "1", "]", ":", "8">>,
      <<"[", ":", ":", "1", "]">>,
      <<"[", ":", ":", "1", "]", "8">>,
      <<"[", ":", ":", "1", "]", ":", "8", ":", "8">>,
      <<"[", "h", ":", "8">>,
      <<"h", "]", ":", "8">>,
      <<"[", "[", "h", "]", ":", "8">>,
      <<":", ":", "1">>,
      <<"h">>,
      <<"h", ":", "8">>,
      <<"h", ":">>,
      <<":", "8">>,
      <<>> }

Whitespace == {" ", "\t", "\n", "\r"}

IndexByte(s, c) ==
    LET at == {i \in 1..Len(s) : s[i] = c}
    IN  IF at = {} THEN 0 ELSE SetMin(at)

LastIndexByte(s, c) ==
    LET at == {i \in 1..Len(s) : s[i] = c}
    IN  IF at = {} THEN 0 ELSE SetMax(at)

\* strings.Split(s, sep)
RECURSIVE SplitOn(_, _)
SplitOn(s, sep) ==
    LET i == IndexByte(s, sep)
    IN  IF i = 0 THEN <<s>>
        ELSE <<SubSeq(s, 1, i - 1)>> \o SplitOn(SubSeq(s, i + 1, Len(s)), sep)

RECURSIVE TrimLeft(_)
TrimLeft(s) ==
    IF s # <<>> /\ Head(s) \in Whitespace THEN TrimLeft(Tail(s)) ELSE s

RECURSIVE TrimRight(_)
TrimRight(s) ==
    IF s # <<>> /\ s[Len(s)] \in Whitespace
    THEN TrimRight(SubSeq(s, 1, Len(s) - 1))
    ELSE s

\* strings.TrimSpace
TrimSpace_None(s) == s
TrimSpace(s) == TrimRight(TrimLeft(s))

DecDigits == <<"0", "1", "2", "3", "4", "5", "6", "7", "8", "9">>
IsDigit(c) == \E i \in 1..Len(DecDigits) : DecDigits[i] = c
DigitVal(c) == (CHOOSE i \in 1..Len(DecDigits) : DecDigits[i] = c) - 1
IsHex(c) ==
    IsDigit(c) \/ c \in {"a", "b", "c", "d", "e", "f", "A", "B", "C", "D", "E", "F"}

RECURSIVE DecVal(_)
DecVal(s) ==
    IF s = <<>> THEN 0
    ELSE DecVal(SubSeq(s, 1, Len(s) - 1)) * 10 + DigitVal(s[Len(s)])

\* One dotted-decimal field: digits only, no leading zero, at most 255.
IPv4Field(f) ==
    /\ Len(f) \in 1..3
    /\ \A i \in 1..Len(f) : IsDigit(f[i])
    /\ Len(f) > 1 => f[1] # "0"
    /\ DecVal(f) <= 255

parseIPv4(s) ==
    LET fs == SplitOn(s, ".")
    IN  Len(fs) = 4 /\ \A i \in 1..4 : IPv4Field(fs[i])

\* Number of leading hexadecimal digits of s.
HexRun(s) ==
    LET stop == {k \in 1..Len(s) : ~IsHex(s[k])}
    IN  IF stop = {} THEN Len(s) ELSE SetMin(stop) - 1

\* After the group loop: the whole string is used, and the ellipsis stands
\* for at least one group exactly when fewer than 16 bytes were parsed.
IPv6End(s, i, ellipsis) ==
    s = <<>> /\ (IF i < 16 THEN ellipsis ELSE ~ellipsis)

\* The group loop of parseIPv6: i bytes parsed so far.
RECURSIVE parseIPv6Groups(_, _, _)
parseIPv6Groups(s, i, ellipsis) ==
    IF i >= 16 THEN IPv6End(s, i, ellipsis)
    ELSE
    LET off == HexRun(s)
        rest == SubSeq(s, off + 1, Len(s))
    IN  IF off = 0 \/ off > 4 THEN FALSE
        ELSE IF rest # <<>> /\ rest[1] = "."
        THEN /\ ellipsis \/ i = 12
             /\ i + 4 <= 16
             /\ parseIPv4(s)
             /\ IPv6End(<<>>, i + 4, ellipsis)
        ELSE IF rest = <<>> THEN IPv6End(<<>>, i + 2, ellipsis)
        ELSE IF rest[1] # ":" \/ Len(rest) = 1 THEN FALSE
        ELSE IF rest[2] = ":"
        THEN /\ ~ellipsis
             /\ IF Len(rest) = 2 THEN IPv6End(<<>>, i + 2, TRUE)
                ELSE parseIPv6Groups(SubSeq(rest, 3, Len(rest)), i + 2, TRUE)
        ELSE parseIPv6Groups(Tail(rest), i + 2, ellipsis)

parseIPv6(s) ==
    IF Len(s) >= 2 /\ s[1] = ":" /\ s[2] = ":"
    THEN Len(s) = 2 \/ parseIPv6Groups(SubSeq(s, 3, Len(s)), 0, TRUE)
    ELSE parseIPv6Groups(s, 0, FALSE)

\* net.ParseIP(s) != nil
ParseIP(s) ==
    LET marks == {k \in 1..Len(s) : s[k] \in {".", ":", "%"}}
    IN  /\ marks # {}
        /\ IF s[SetMin(marks)] = "." THEN parseIPv4(s)
           ELSE IF s[SetMin(marks)] = ":" THEN parseIPv6(s)
           ELSE FALSE

\* net.SplitHostPort(hostport): the host and whether err == nil.
SplitHostPort(hostport) ==
    LET i == LastIndexByte(hostport, ":")
        end == IndexByte(hostport, "]")
        n == Len(hostport)
        fail == [host |-> <<>>, ok |-> FALSE]
    IN  IF i = 0 THEN fail
        ELSE IF hostport[1] = "["
        THEN IF end = 0 \/ end = n \/ end + 1 # i THEN fail
             ELSE IF IndexByte(SubSeq(hostport, 2, n), "[") # 0 THEN fail
             ELSE IF IndexByte(SubSeq(hostport, end + 1, n), "]") # 0 THEN fail
             ELSE [host |-> SubSeq(hostport, 2, end - 1), ok |-> TRUE]
        ELSE IF IndexByte(SubSeq(hostport, 1, i - 1), ":") # 0 THEN fail
             ELSE IF IndexByte(hostport, "[") # 0 THEN fail
             ELSE IF IndexByte(hostport, "]") # 0 THEN fail
             ELSE [host |-> SubSeq(hostport, 1, i - 1), ok |-> TRUE]

\* ip := strings.TrimSpace(strings.Split(forwarded, ",")[0])
ForwardedIP(forwarded) == TrimSpace(SplitOn(forwarded, ",")[1])

\* forwarded != "" and net.ParseIP(ip) != nil
UsesForwarded(forwarded) ==
    forwarded # <<>> /\ ParseIP(ForwardedIP(forwarded))

\* getIP is called with a request: any header value, any RemoteAddr.
GetIPInit ==
    /\ gip \in [pc : {"called"}, forwarded : Forwardeds,
                remote : RemoteAddrs, out : {<<>>}]
    /\ LimiterIdle
    /\ MiddlewareIdle
    /\ RouteIdle
    /\ HandlerIdle
    /\ ConcIdle
    /\ LegacyIdle

\* return ip
GetIPForwarded ==
    /\ gip.pc = "called"
    /\ UsesForwarded(gip.forwarded)
    /\ gip' = [gip EXCEPT !.pc = "done", !.out = ForwardedIP(gip.forwarded)]
    /\ UNCHANGED <<rlVars, routeVars, handlerVars, mw, concVars, legacyVars>>

\* return host
GetIPHost ==
    /\ gip.pc = "called"
    /\ ~UsesForwarded(gip.forwarded)
    /\ SplitHostPort(gip.remote).ok
    /\ gip' = [gip EXCEPT !.pc = "done", !.out = SplitHostPort(gip.remote).host]
    /\ UNCHANGED <<rlVars, routeVars, handlerVars, mw, concVars, legacyVars>>

\* err != nil: return r.RemoteAddr
GetIPRaw ==
    /\ gip.pc = "called"
    /\ ~UsesForwarded(gip.forwarded)
    /\ ~SplitHostPort(gip.remote).ok
    /\ gip' = [gip EXCEPT !.pc = "done", !.out = gip.remote]
    /\ UNCHANGED <<rlVars, routeVars, handlerVars, mw, concVars, legacyVars>>

GetIPNext == GetIPForwarded \/ GetIPHost \/ GetIPRaw

GetIPSpec == GetIPInit /\ [][GetIPNext]_vars

\* The candidates for "the first comma-separated, whitespace-trimmed entry"
\* of f: the part before the first comma without its surrounding whitespace.
FirstEntries(f) ==
    { SubSeq(f, a, b) : <<a, b>> \in
        { ab \in (1..Len(f) + 1) \X (0..Len(f)) :
            /\ ab[1] <= ab[2] + 1
            /\ \E n \in ab[2]..Len(f) :
                 /\ \A k \in 1..n : f[k] # ","
                 /\ n = Len(f) \/ f[n + 1] = ","
                 /\ \A k \in (1..ab[1] - 1) \cup (ab[2] + 1..n) :
                        f[k] \in Whitespace
            /\ ab[1] <= ab[2] =>
                 (f[ab[1]] \notin Whitespace /\ f[ab[2]] \notin Whitespace) } }

\* The hosts h with r = h:port or r = [h]:port.
NoneOf(s, cs) == \A k \in 1..Len(s) : s[k] \notin cs
RemoteHosts(r) ==
    { h \in {SubSeq(r, a, b) : a \in 1..2, b \in 0..Len(r)} :
        \E p \in 1..Len(r) + 1 :
          LET port == SubSeq(r, p, Len(r))
          IN  /\ NoneOf(port, {":", "[", "]"})
              /\ \/ /\ r = h \o <<":">> \o port
                    /\ NoneOf(h, {":", "[", "]"})
                 \/ /\ r = <<"[">> \o h \o <<"]", ":">> \o port
                    /\ NoneOf(h, {"[", "]"}) }

\* C19: getIP returns the first comma-separated, whitespace-trimmed entry
\* of X-Forwarded-For when the header is non-empty and that entry parses as
\* an IP literal; otherwise the host part of RemoteAddr when RemoteAddr
\* splits into host:port; otherwise RemoteAddr itself.
C19_GetIP ==
    gip.pc = "done" =>
        LET entries == FirstEntries(gip.forwarded)
            hosts == RemoteHosts(gip.remote)
            parses == gip.forwarded # <<>> /\ \E e \in entries : ParseIP(e)
        IN  /\ parses => (gip.out \in entries /\ ParseIP(gip.out))
            /\ (~parses /\ hosts # {}) => gip.out \in hosts
            /\ (~parses /\ hosts = {}) => gip.out = gip.remote

\* A header with several entries and padding whose first entry, an IP
\* literal, was returned although RemoteAddr splits as well.
C19_Witness ==
    /\ gip.pc = "done"
    /\ IndexByte(gip.forwarded, ",") # 0
    /\ gip.forwarded[1] \in Whitespace
    /\ ParseIP(gip.out)
    /\ gip.out \in FirstEntries(gip.forwarded)
    /\ RemoteHosts(gip.remote) # {}
    /\ gip.out \notin RemoteHosts(gip.remote)

\* ------------------------------------------------------------------------
\* RateLimiter: cancellation, token bounds, ages and the sweep
\* ------------------------------------------------------------------------

\* The limiter under fair scheduling: the select of cleanup chooses at
\* random among its ready cases, so the Done case, ready again and again,
\* is taken in the end; a goroutine that can take, hold or release the mutex
\* does so.
FairSpec ==
    /\ Spec
    /\ SF_vars(CleanupDone)
    /\ WF_vars(CleanupTick)
    /\ WF_vars(CleanupLock)
    /\ WF_vars(CleanupSweep)
    /\ WF_vars(\E p \in Callers : AllowReturn(p))

\* C21: once the context is cancelled the cleanup goroutine stops its
\* ticker and returns, no later than the next tick and after at most one
\* further sweep pass: a pass that runs after the cancellation is the last
\* one, once the goroutine is back at its select it never sweeps again.
C21_CancelOneSweep ==
    /\ cancelled ~> (cleanPc = "returned" /\ ~tickerOn)
    /\ [](  (cancelled /\ cleanPc = "sweep")
         => [](cleanPc = "select" => [](cleanPc # "sweep")))

\* The Done case of cleanup was taken: the ticker is stopped and the
\* goroutine has returned.
CleanupEnded == ~tickerOn

\* An Allow call returns in this step, for the client it was made for.
AllowReturns(p) == pc[p] = "locked" /\ pc'[p] = "idle"

\* The create / increment / reset / deny rules, read off the clients map
\* before and after the step and the value returned (the call's log entry).
AllowRules(c) ==
    LET ret == log'[c][Len(log'[c])].ok
    IN  IF c \notin DOMAIN clients
        THEN ret /\ clients'[c] = [tokens |-> 1, age |-> now]
        ELSE IF clients[c].tokens < maxTokens
        THEN ret /\ clients'[c] = [tokens |-> clients[c].tokens + 1,
                                   age |-> clients[c].age]
        ELSE IF now - clients[c].age > interval
        THEN ret /\ clients'[c] = [tokens |-> 1, age |-> now]
        ELSE ~ret /\ clients'[c] = clients[c]

\* C22: cancelling the context leaves the clients map as it is; once the
\* cleanup goroutine has returned no entry is deleted any more and Allow
\* goes on applying the create / increment / reset / deny rules.
C22_CancelKeepsClients ==
    [][ /\ (~cancelled /\ cancelled') => clients' = clients
        /\ CleanupEnded =>
             /\ DOMAIN clients \subseteq DOMAIN clients'
             /\ \A p \in Callers : AllowReturns(p) => AllowRules(ip[p]) ]_vars

\* After the goroutine has returned an entry older than interval is still
\* in the map and an Allow call is about to reset it.
C22_Witness ==
    /\ cleanPc = "returned"
    /\ \E p \in Callers :
         /\ pc[p] = "locked"
         /\ ip[p] \in DOMAIN clients
         /\ now - clients[ip[p]].age > interval
         /\ AllowBranch(p) = "reset"

\* C23: in every reachable state, for every maxTokens NewRateLimiter
\* accepts (0 included), every client entry has 0 <= tokens <= maxTokens.
C23_TokenBound ==
    \A c \in DOMAIN clients :
        0 <= clients[c].tokens /\ clients[c].tokens <= maxTokens

\* C24: Allow returns false if and only if, while it holds the lock, the
\* client has an entry with tokens >= maxTokens and now - age <= interval;
\* never for a client without entry or with an entry older than interval.
C24_DenialCondition ==
    [][ \A p \in Callers : AllowReturns(p) =>
          LET c == ip[p]
              ret == log'[c][Len(log'[c])].ok
          IN  ~ret <=> /\ c \in DOMAIN clients
                       /\ clients[c].tokens >= maxTokens
                       /\ now - clients[c].age <= interval ]_vars

\* A call was refused exactly interval after the entry's age, and another
\* call on a full entry, later than that, was admitted.
C24_Witness ==
    \E c \in ClientIds : \E i, j \in Calls(c) :
        /\ ~log[c][i].ok
        /\ log[c][i].t - log[c][i].age = interval
        /\ log[c][j].branch = "reset"

\* C25: for every maxTokens (0 included) an Allow call for a client that
\* has no entry returns true and creates an entry with tokens = 1 and
\* age = now.
C25_FirstRequest ==
    [][ \A p \in Callers :
          (AllowReturns(p) /\ ip[p] \notin DOMAIN clients) =>
             /\ log'[ip[p]][Len(log'[ip[p]])].ok
             /\ ip[p] \in DOMAIN clients'
             /\ clients'[ip[p]] = [tokens |-> 1, age |-> now] ]_vars

\* With maxTokens = 0 a client without entry was admitted, at a time
\* later than the limiter's construction, and its entry was created.
C25_Witness ==
    /\ maxTokens = 0
    /\ \E c \in DOMAIN clients : \E i \in Calls(c) :
         /\ log[c][i].branch = "create"
         /\ log[c][i].ok
         /\ log[c][i].t > 0
         /\ clients[c] = [tokens |-> 1, age |-> log[c][i].t]

\* C26: the age of an entry changes only when Allow creates or resets it,
\* and is then the current time; the increment and deny branches, and every
\* other step, leave it as it is, so the sweep and the reset are decided by
\* the time of the last creation or reset, not of the last call.
C26_AgeAsymmetry ==
    [][ \A c \in DOMAIN clients' :
          LET aged == c \notin DOMAIN clients \/ clients'[c].age # clients[c].age
              by == {p \in Callers : AllowReturns(p) /\ ip[p] = c}
              last == log'[c][Len(log'[c])]
          IN  /\ aged => /\ by # {}
                         /\ last.branch \in {"create", "reset"}
                         /\ clients'[c].age = now
              /\ (by # {} /\ last.branch \in {"increment", "deny"}) =>
                    (c \in DOMAIN clients /\ clients'[c].age = clients[c].age) ]_vars

\* An increment made later than the entry's creation left the age behind
\* the time of the call, and the next call, a reset, was decided by it.
C26_Witness ==
    \E c \in ClientIds : \E i \in Calls(c) :
        /\ log[c][i].branch = "increment"
        /\ log[c][i].age < log[c][i].t
        /\ i + 1 \in Calls(c)
        /\ log[c][i + 1].branch = "reset"
        /\ log[c][i + 1].t - log[c][i].t <= interval

\* The limiter serving two clients, one request at a time, while its
\* cleanup goroutine sweeps (the context is not cancelled).
SweepCallers == {p \in Callers : p = NumCallers}

\* The number of calls each of the two clients makes at most.
SweepCallsEach == MaxCalls - 2

SweepNext ==
    \/ \E p \in SweepCallers, c \in AllClients :
          Len(log[c]) < SweepCallsEach /\ AllowLock(p, c)
    \/ \E p \in SweepCallers : AllowReturn(p)
    \/ Tick
    \/ CleanupTick
    \/ CleanupLock
    \/ CleanupSweep

SweepSpec == Init /\ [][SweepNext]_vars

\* The range loop of cleanup runs in this step.
SweepRuns == cleanPc = "sweep" /\ cleanPc' = "select"

\* C27: a sweep runs under the limiter mutex, with no Allow call in its
\* critical section; it deletes exactly the entries with now - age >
\* interval and leaves every other entry as it is, so right after it no
\* entry is older than interval; it never resets an entry in place.
C27_SweepEffect ==
    [][ SweepRuns =>
          /\ mtx = CleanupOwner
          /\ \A p \in Callers : pc[p] # "locked"
          /\ DOMAIN clients' =
                {c \in DOMAIN clients : ~(now - clients[c].age > interval)}
          /\ \A c \in DOMAIN clients' :
                /\ clients'[c] = clients[c]
                /\ now' - clients'[c].age <= interval ]_vars

\* A sweep has run since the last call of either client: the entry of one
\* is gone, the entry of the other is still there.
C27_Witness ==
    /\ cleanPc = "select"
    /\ swept["c1"] /\ swept["c2"]
    /\ log["c1"] # <<>> /\ log["c2"] # <<>>
    /\ "c1" \notin DOMAIN clients
    /\ "c2" \in DOMAIN clients

\* ------------------------------------------------------------------------
\* Handler: concurrent HandleFunc and find calls (handler.go)
\* ------------------------------------------------------------------------

\* What the concurrent calls are made with.
ConcMethods == {"GET", "wrongmethod"}
ConcPaths == {<<"/", "a">>, <<"/", "{", "x", "}">>, <<"/", "{", "{", "x", "}">>}
FindPaths == {<<"/", "a">>, <<"/">>}

\* m.mtx.Lock() in HandleFunc can return only while nobody holds the mutex.
HandleFuncMayLock_Always == TRUE
HandleFuncMayLock == hmtx = "free"

\* m.mtx.Lock() in find can return only while nobody holds the mutex.
FindMayLock_Always == TRUE
FindMayLock == hmtx = "free"

\* m.routes[i] = newRoute
Replaced_Moved(rs, i, r) ==
    Append([k \in 1..Len(rs) - 1 |-> IF k < i THEN rs[k] ELSE rs[k + 1]], r)
Replaced(rs, i, r) == [rs EXCEPT ![i] = r]

\* Concurrent calls on a handler made by NewHandler(nil).
ConcInit ==
    /\ HandlerIdle
    /\ ConcIdle
    /\ LegacyIdle
    /\ LimiterIdle
    /\ RouteIdle
    /\ MiddlewareIdle
    /\ GetIPIdle

\* A goroutine calls HandleFunc(method, path, handler).
ConcHandleFunc(r, method, path, handler) ==
    /\ hf[r].pc = "idle"
    /\ hf' = [hf EXCEPT ![r] = [NoHandleFunc EXCEPT !.pc = "called",
                 !.method = method, !.path = path, !.handler = handler]]
    /\ UNCHANGED <<handlerVars, fd, rlVars, routeVars, mw, gip, legacyVars>>

\* HandleFunc: the method is not supported, "method not allowed"
ConcReject(r) ==
    /\ hf[r].pc = "called"
    /\ ~Supported(hf[r].method)
    /\ hf' = [hf EXCEPT ![r] = NoHandleFunc]
    /\ UNCHANGED <<handlerVars, fd, rlVars, routeVars, mw, gip, legacyVars>>

\* HandleFunc: the method is supported, m.mtx.Lock()
ConcLock(r) ==
    /\ hf[r].pc = "called"
    /\ Supported(hf[r].method)
    /\ \/ Len(routes) < MaxRoutes
       \/ Registered(routes, hf[r].method, hf[r].path) # {}
       \/ ParseFails(hf[r].path)
    /\ HandleFuncMayLock
    /\ hmtx' = r
    /\ hf' = [hf EXCEPT ![r].pc = "locked"]
    /\ UNCHANGED <<cors, limited, routes, reg, lastReg, srv, resp, fd,
                   rlVars, routeVars, mw, gip, legacyVars>>

\* HandleFunc: newRoute.parse() fails, "error registering route"; Unlock
ConcParseError(r) ==
    /\ hf[r].pc = "locked"
    /\ ParseFails(hf[r].path)
    /\ hmtx' = "free"
    /\ hf' = [hf EXCEPT ![r] = NoHandleFunc]
    /\ UNCHANGED <<cors, limited, routes, reg, lastReg, srv, resp, fd,
                   rlVars, routeVars, mw, gip, legacyVars>>

\* HandleFunc: the route is parsed; the loop looks for a route with the
\* same method and path
ConcScan(r) ==
    /\ hf[r].pc = "locked"
    /\ ~ParseFails(hf[r].path)
    /\ hf' = [hf EXCEPT ![r].pc = "scanned",
                        ![r].idx =
                            IF Registered(routes, hf[r].method, hf[r].path) = {}
                            THEN 0
                            ELSE SetMin(Registered(routes, hf[r].method,
                                                   hf[r].path))]
    /\ UNCHANGED <<handlerVars, fd, rlVars, routeVars, mw, gip, legacyVars>>

\* HandleFunc: m.routes[i] = newRoute; return nil; Unlock
ConcReplace(r) ==
    /\ hf[r].pc = "scanned"
    /\ hf[r].idx # 0
    /\ routes' = Replaced(routes, hf[r].idx,
                          NewRoute(hf[r].method, hf[r].path, hf[r].handler))
    /\ hmtx' = "free"
    /\ hf' = [hf EXCEPT ![r] = NoHandleFunc]
    /\ UNCHANGED <<cors, limited, reg, lastReg, srv, resp, fd,
                   rlVars, routeVars, mw, gip, legacyVars>>

\* HandleFunc: m.routes = append(m.routes, newRoute); return nil; Unlock
ConcAppend(r) ==
    /\ hf[r].pc = "scanned"
    /\ hf[r].idx = 0
    /\ routes' = Append(routes,
                        NewRoute(hf[r].method, hf[r].path, hf[r].handler))
    /\ hmtx' = "free"
    /\ hf' = [hf EXCEPT ![r] = NoHandleFunc]
    /\ UNCHANGED <<cors, limited, reg, lastReg, srv, resp, fd,
                   rlVars, routeVars, mw, gip, legacyVars>>

\* A goroutine calls find(method, requestURI).
ConcFind(method, requestURI) ==
    /\ fd.pc = "idle"
    /\ fd' = [NoFind EXCEPT !.pc = "called", !.method = method,
                            !.path = requestURI]
    /\ UNCHANGED <<handlerVars, hf, rlVars, routeVars, mw, gip, legacyVars>>

\* find: m.mtx.Lock(); the range expression m.routes is evaluated
ConcFindLock ==
    /\ fd.pc = "called"
    /\ FindMayLock
    /\ hmtx' = "find"
    /\ fd' = [fd EXCEPT !.pc = "loop", !.snap = routes, !.i = 1]
    /\ UNCHANGED <<cors, limited, routes, reg, lastReg, srv, resp, hf,
                   rlVars, routeVars, mw, gip, legacyVars>>

\* The route the loop of find reads at its index.
FindReads == IF fd.i <= Len(routes) THEN routes[fd.i] ELSE fd.snap[fd.i]

\* find: one iteration that does not return
ConcFindSkip ==
    /\ fd.pc = "loop"
    /\ fd.i <= Len(fd.snap)
    /\ ~(FindMethod(FindReads, fd.method) /\ match(FindReads.rgx, fd.path))
    /\ fd' = [fd EXCEPT !.i = fd.i + 1]
    /\ UNCHANGED <<handlerVars, hf, rlVars, routeVars, mw, gip, legacyVars>>

\* find: return r, true; Unlock
ConcFindHit ==
    /\ fd.pc = "loop"
    /\ fd.i <= Len(fd.snap)
    /\ FindMethod(FindReads, fd.method) /\ match(FindReads.rgx, fd.path)
    /\ hmtx' = "free"
    /\ fd' = [NoFind EXCEPT !.out = [route |-> FindReads, exist |-> TRUE]]
    /\ UNCHANGED <<cors, limited, routes, reg, lastReg, srv, resp, hf,
                   rlVars, routeVars, mw, gip, legacyVars>>

\* find: return nil, false; Unlock
ConcFindMiss ==
    /\ fd.pc = "loop"
    /\ fd.i > Len(fd.snap)
    /\ hmtx' = "free"
    /\ fd' = NoFind
    /\ UNCHANGED <<cors, limited, routes, reg, lastReg, srv, resp, hf,
                   rlVars, routeVars, mw, gip, legacyVars>>

ConcNext ==
    \/ \E r \in Registrars, m \in ConcMethods, p \in ConcPaths,
          h \in HandlerIds : ConcHandleFunc(r, m, p, h)
    \/ \E r \in Registrars : ConcReject(r)
    \/ \E r \in Registrars : ConcLock(r)
    \/ \E r \in Registrars : ConcParseError(r)
    \/ \E r \in Registrars : ConcScan(r)
    \/ \E r \in Registrars : ConcReplace(r)
    \/ \E r \in Registrars : ConcAppend(r)
    \/ \E m \in ReqMethods, p \in FindPaths : ConcFind(m, p)
    \/ ConcFindLock
    \/ ConcFindSkip
    \/ ConcFindHit
    \/ ConcFindMiss

ConcSpec == ConcInit /\ [][ConcNext]_vars

\* The (method, path) keys of a routes slice, in order.
Keys(rs) == [i \in 1..Len(rs) |-> <<rs[i].method, rs[i].path>>]

\* C28: after any sequence of HandleFunc calls, successful or failing,
\* sequential or concurrent, the routes slice never holds two routes with
\* the same method and path.
C28_RouteUniqueness ==
    \A i, j \in 1..Len(routes) : Keys(routes)[i] = Keys(routes)[j] => i = j

\* Two HandleFunc calls for the same method and path are in progress, one
\* of them inside the mutex about to append, the other waiting.
C28_Witness ==
    /\ hf["r1"].pc = "scanned" /\ hf["r1"].idx = 0
    /\ hf["r2"].pc = "called"
    /\ hf["r1"].method = hf["r2"].method
    /\ hf["r1"].path = hf["r2"].path
    /\ Len(routes) = 1

\* A HandleFunc call writes to the routes slice in this step.
HandleFuncWrites ==
    \/ \E r \in Registrars : hf[r].pc = "scanned" /\ hf'[r].pc = "idle"
    \/ reg.pc = "locked" /\ reg'.pc = "idle"

\* C29: no operation removes or reorders routes: a HandleFunc call leaves
\* the sequence of (method, path) keys as it was or appends exactly one new
\* key at the end, and nothing else (find, ServeHTTP) changes the slice.
C29_OrderStability ==
    [][ /\ \/ Keys(routes') = Keys(routes)
           \/ /\ Len(routes') = Len(routes) + 1
              /\ SubSeq(Keys(routes'), 1, Len(routes)) = Keys(routes)
              /\ \A i \in 1..Len(routes) :
                    Keys(routes)[i] # Keys(routes')[Len(routes')]
        /\ routes' # routes => HandleFuncWrites ]_vars

\* A call is about to replace the first of two routes by a route with
\* another handler while a find call waits for the mutex.
C29_Witness ==
    /\ Len(routes) = 2
    /\ fd.pc = "called"
    /\ \E r \in Registrars :
         /\ hf[r].pc = "scanned"
         /\ hf[r].idx = 1
         /\ routes[1].handler # hf[r].handler

\* The calls inside the critical section of the handler mutex.
InHandleFunc == {r \in Registrars : hf[r].pc \in {"locked", "scanned"}}
InFind == IF fd.pc = "loop" THEN {"find"} ELSE {}

\* C30: HandleFunc and find exclude each other on the handler mutex: a
\* find sees the routes slice as it was at one moment, before or after any
\* concurrent registration (every route it can see is compiled, none is
\* half replaced), and two concurrent HandleFunc calls for the same method
\* and path never both append.
C30_AtomicRegistration ==
    [][ /\ Cardinality(InHandleFunc \cup InFind) <= 1
        /\ fd.pc = "loop" =>
              /\ routes' = routes
              /\ fd.snap = routes
              /\ fd'.pc = "idle" =>
                    fd'.out = find(routes, fd.method, fd.path)
        /\ \A i \in 1..Len(routes) :
              /\ routes[i].rgx.src = RgxSource(routes[i].path)
              /\ routes[i].rgx.prog = Compile(RgxSource(routes[i].path), 1)
              /\ CompileOK(routes[i].rgx.prog)
        /\ Len(routes') > Len(routes) =>
              \A i \in 1..Len(routes) :
                  Keys(routes)[i] # Keys(routes')[Len(routes')] ]_vars

\* A find call is in the middle of its loop while one HandleFunc call
\* waits to replace the route it has passed and another waits to append.
C30_Witness ==
    /\ fd.pc = "loop"
    /\ fd.i = 2
    /\ hf["r1"].pc = "called" /\ hf["r2"].pc = "called"
    /\ Registered(routes, hf["r1"].method, hf["r1"].path) = {1}
    /\ Supported(hf["r2"].method) /\ ~ParseFails(hf["r2"].path)
    /\ Registered(routes, hf["r2"].method, hf["r2"].path) = {}

\* ------------------------------------------------------------------------
\* Handler: admission, CORS pre-flight and routing (checked under ServeSpec)
\* ------------------------------------------------------------------------

\* The request being served went through a route lookup or a handler.
Routed ==
    \/ srv.pc \in {"find", "found"}
    \/ hmtx = "find"
    \/ srv.found.exist
    \/ resp.invoked # <<>>
    \/ resp.status = 405

C32_Preflight ==
    srv.method = "OPTIONS" /\ srv.admitted =>
        IF cors
        THEN /\ srv.pc = "done"
             /\ resp.status = 200
             /\ resp.invoked = <<>>
             /\ srv.found = NoRequest.found
             /\ hmtx = "free"
        ELSE /\ srv.pc \in {"found", "done"} =>
                  srv.found = find(routes, "OPTIONS", srv.path)
             /\ srv.pc = "done" =>
                  /\ ~find(routes, "OPTIONS", srv.path).exist =>
                        resp.status = 405 /\ resp.invoked = <<>>
                  /\ resp.status \in {200, 405}
                  /\ resp.status = 200 =>
                        resp.invoked = <<srv.found.route.handler>>

\* CORS is enabled, a route registered for OPTIONS matches the path, and
\* the OPTIONS request was answered 200 with the route's handler not called.
C32_Witness ==
    /\ cors
    /\ srv.pc = "done"
    /\ srv.method = "OPTIONS"
    /\ srv.admitted
    /\ resp.status = 200
    /\ resp.invoked = <<>>
    /\ find(routes, "OPTIONS", srv.path).exist
    /\ decodeArgs(find(routes, "OPTIONS", srv.path).route.rgx, srv.path).ok

\* ------------------------------------------------------------------------
\* RateLimiter: windows, isolation and eviction delay
\* ------------------------------------------------------------------------

\* The Allow calls of client c that returned true at a time within the
\* window of length interval that starts at w.
Grants(c, w) ==
    {i \in 1..Len(log[c]) :
        log[c][i].ok /\ w <= log[c][i].t /\ log[c][i].t <= w + interval}

\* C35: with maxTokens = K >= 1, in every window of length interval at most
\* 2K - 1 Allow calls of one client return true, whatever the order of the
\* Allow calls and the sweep passes.
C35_WindowBound ==
    maxTokens >= 1 =>
        \A c \in AllClients, w \in 0..MaxTime :
            Cardinality(Grants(c, w)) <= 2 * maxTokens - 1

\* With maxTokens = 2 a window holds three admitted calls: the last
\* increment of one period, the reset and the increment after it.
C35_Witness ==
    /\ maxTokens = 2
    /\ \E c \in AllClients, w \in 0..MaxTime :
          /\ Cardinality(Grants(c, w)) = 3
          /\ \E i \in Grants(c, w) : log[c][i].branch = "reset"

\* The Allow call of client c that returns in this step.
Returns(c) == Len(log'[c]) > Len(log[c])

\* C36: an Allow call for client c leaves the entry of every other client
\* as it was (none created, changed or deleted), and an Allow call that
\* returns false leaves the whole clients map unchanged, c's tokens and
\* age included.
C36_Isolation ==
    [][\A c \in AllClients :
          Returns(c) =>
              /\ \A d \in AllClients \ {c} :
                    /\ d \in DOMAIN clients' <=> d \in DOMAIN clients
                    /\ d \in DOMAIN clients => clients'[d] = clients[d]
              /\ ~log'[c][Len(log'[c])].ok => clients' = clients]_vars

\* A call of one client was denied while the other client has an entry.
C36_Witness ==
    \E c \in AllClients :
        /\ log[c] # <<>>
        /\ log[c][Len(log[c])].branch = "deny"
        /\ c \in DOMAIN clients
        /\ \E d \in AllClients \ {c} : d \in DOMAIN clients /\ log[d] # <<>>

\* The entries created or last reset more than two intervals ago.
Overdue == {c \in DOMAIN clients : now - clients[c].age > 2 * interval}

\* A tick waits in tiker.C, or the goroutine took one and its sweep pass
\* has not yet run.
SweepPending == tickC \/ cleanPc \in {"lock", "sweep"}

getIP_RemoteOnly(forwarded, remote) ==
    IF SplitHostPort(remote).ok THEN SplitHostPort(remote).host ELSE remote
getIP(forwarded, remote) ==
    IF UsesForwarded(forwarded) THEN ForwardedIP(forwarded)
    ELSE IF SplitHostPort(remote).ok THEN SplitHostPort(remote).host
    ELSE remote

\* The requests of the scenario: no header, an IPv4 literal, an IPv6 literal
\* after a blank, and the same IPv6 literal followed by a second entry; a
\* RemoteAddr with a host name and one whose host is the IPv6 literal.
KeyForwardeds ==
    { <<>>,
      <<"1", ".", "1", ".", "1", ".", "1">>,
      <<" ", ":", ":", "1">>,
      <<":", ":", "1", ",", "1", ".", "1", ".", "1", ".", "1">> }
KeyRemotes ==
    { <<"h", ":", "8">>,
      <<"[", ":", ":", "1", "]", ":", "8">> }
KeyIds == {getIP(f, r) : f \in KeyForwardeds, r \in KeyRemotes}
KeyCallers == {p \in Callers : p = 1}
KeyCalls == MaxCalls - 2

NoKeyRequest == [forwarded |-> <<>>, remote |-> <<>>, valid |-> FALSE]

\* NewRateLimiter with any maxTokens and interval; the requests come one
\* after the other and the cleanup goroutine is left out.
KeyInit ==
    /\ maxTokens \in 0..MaxTokensBound
    /\ interval \in 1..MaxIntervalBound
    /\ now = 0
    /\ clients = [c \in {} |-> NoClient]
    /\ mtx = NoOwner
    /\ cancelled = TRUE
    /\ cleanPc = "returned"
    /\ tickerOn = FALSE
    /\ nextTick = interval
    /\ tickC = FALSE
    /\ pc = [p \in Callers |-> "idle"]
    /\ ip = [p \in Callers |-> NoIP]
    /\ cl = [p \in Callers |-> NoClient]
    /\ log = [c \in KeyIds |-> <<>>]
    /\ swept = [c \in KeyIds |-> FALSE]
    /\ gip = [pc |-> "off", forwarded |-> <<>>, remote |-> <<>>, out |-> <<>>,
              prev |-> NoKeyRequest]
    /\ MiddlewareIdle
    /\ ConcIdle
    /\ LegacyIdle
    /\ RouteIdle
    /\ HandlerIdle

\* Allow(r): ip := getIP(r), rl.mtx.Lock() and the map lookup
KeyAllow(p, forwarded, remote) ==
    /\ gip.pc # "called"
    /\ LogLen(DOMAIN log) < KeyCalls
    /\ AllowEnter(p, getIP(forwarded, remote))
    /\ gip' = [pc |-> "called", forwarded |-> forwarded, remote |-> remote,
               out |-> getIP(forwarded, remote),
               prev |-> IF gip.pc = "off" THEN NoKeyRequest
                        ELSE [forwarded |-> gip.forwarded,
                              remote |-> gip.remote, valid |-> TRUE]]
    /\ UNCHANGED <<routeVars, handlerVars, mw, concVars, legacyVars>>

\* Allow(r) returns.
KeyReturn(p) ==
    /\ gip.pc = "called"
    /\ AllowExit(p)
    /\ gip' = [gip EXCEPT !.pc = "done"]
    /\ UNCHANGED <<routeVars, handlerVars, mw, concVars, legacyVars>>

KeyNext ==
    \/ \E p \in KeyCallers, f \in KeyForwardeds, r \in KeyRemotes :
          KeyAllow(p, f, r)
    \/ \E p \in KeyCallers : KeyReturn(p)
    \/ Tick

KeySpec == KeyInit /\ [][KeyNext]_vars

\* The entry of key k, or NoClient.
EntryOf(m, k) == IF k \in DOMAIN m THEN m[k] ELSE NoClient

\* C38: the forwarded header decides the key. When an Allow call returns
\* for a request whose first X-Forwarded-For entry is a valid IP literal,
\* and the request served before it also had one: if the literals differ
\* the two are counted against different entries, also with the same
\* RemoteAddr (the call leaves the entry of the earlier request as it was
\* and its result is decided by its own entry alone); if the literals
\* are the same, the call is counted against the entry of the earlier
\* request whatever the two RemoteAddr values are.
C38_ForwardedKey ==
    [][(gip.pc = "called" /\ gip'.pc = "done" /\ gip.prev.valid
        /\ UsesForwarded(gip.forwarded)
        /\ UsesForwarded(gip.prev.forwarded)) =>
          LET mine == ForwardedIP(gip.forwarded)
              other == ForwardedIP(gip.prev.forwarded)
              last == log'[mine][Len(log'[mine])]
          IN /\ Len(log'[mine]) = Len(log[mine]) + 1
             /\ last.ok <=> \/ mine \notin DOMAIN clients
                            \/ clients[mine].tokens < maxTokens
                            \/ now - clients[mine].age > interval
             /\ mine # other =>
                   /\ EntryOf(clients', other) = EntryOf(clients, other)
                   /\ log'[other] = log[other]
             /\ mine = other =>
                   /\ other \in DOMAIN clients'
                   /\ last.tokens = clients'[other].tokens
                   /\ last.age = clients'[other].age]_vars

\* With maxTokens = 1, a request forwarded for one literal is admitted in
\* the instant in which a request with the same RemoteAddr forwarded for
\* another literal took the only token of its entry, and the host of
\* RemoteAddr has no entry.
C38_Witness ==
    /\ maxTokens = 1
    /\ gip.pc = "done"
    /\ gip.prev.valid
    /\ gip.prev.remote = gip.remote
    /\ UsesForwarded(gip.forwarded)
    /\ UsesForwarded(gip.prev.forwarded)
    /\ ForwardedIP(gip.forwarded) # ForwardedIP(gip.prev.forwarded)
    /\ Len(log[ForwardedIP(gip.prev.forwarded)]) = 1
    /\ Len(log[ForwardedIP(gip.forwarded)]) = 1
    /\ log[ForwardedIP(gip.prev.forwarded)][1].t = now
    /\ log[ForwardedIP(gip.forwarded)][1].ok
    /\ SplitHostPort(gip.remote).host \notin DOMAIN clients

\* ------------------------------------------------------------------------
\* rateLimiter with a TTL (ratelimiter.go)
\* ------------------------------------------------------------------------
MaxTtl == 2
MaxTtlCalls == 2
MaxTtlTime == 2

TtlCleanupOwner == "cleanup"
TtlOps == {"addrLimiter", "isAllowed", "includeAddr", "removeAddr"}

\* The addresses of the scenario: one hostname with a scheme and a path
\* and with a port, and a name that hostnameRgx does not match.
Addrs == {"http://a.io/x", "a.io:80", "localhost"}

\* hostnameFromAddr: the first or second group of hostnameRgx
hostnameFromAddr(addr) ==
    CASE addr = "http://a.io/x" -> [hostname |-> "a.io", ok |-> TRUE]
      [] addr = "a.io:80" -> [hostname |-> "a.io", ok |-> TRUE]
      [] OTHER -> [hostname |-> "", ok |-> FALSE]

HostOf(p) == hostnameFromAddr(tcall[p].addr).hostname
Has(h) == rateLimiters[h] # NoEntry

\* The calls made so far by all the callers.
RECURSIVE TtlCallsOf(_)
TtlCallsOf(S) ==
    IF S = {} THEN 0
    ELSE LET p == CHOOSE q \in S : TRUE
         IN tcall[p].n + TtlCallsOf(S \ {p})

\* A call returns: its frame is gone, what it returned stays.
Returned(p, out) == [NoTtlCall EXCEPT !.n = tcall[p].n, !.out = out]

\* rl.mtx.Lock() returns only while no other goroutine holds rl.mtx
rlmtxFree_Always == TRUE
rlmtxFree == rlmtx = NoHolder

\* cleanup: the entry is removed when now.Sub(value.lastAccess) > rl.ttl
Expired(entry, at) == at - entry.lastAccess > ttl

\* RateLimiter(ctx, r, b, ttl): a ttl that is not positive becomes
\* DefaultTTL, the map is empty, the goroutine waits for the first tick.
\* The context is not cancelled while the scenario runs.
TtlInit ==
    /\ ttl \in 1..MaxTtl
    /\ tnow = 0
    /\ rateLimiters = [h \in Hostnames |-> NoEntry]
    /\ rlmtx = NoHolder
    /\ made = 0
    /\ tcall = [p \in TtlCallers |-> NoTtlCall]
    /\ tsweep = [pc |-> "select", now |-> 0, next |-> ttl]
    /\ tuse = [h \in Hostnames |-> NoUse]
    /\ ErrIdle
    /\ HandlerIdle
    /\ ConcIdle
    /\ LimiterIdle
    /\ RouteIdle
    /\ MiddlewareIdle
    /\ GetIPIdle

TtlRest == <<rlVars, routeVars, handlerVars, mw, gip, concVars, errVars>>

\* A goroutine calls one of the methods with an address.
TtlCall(p, op, addr) ==
    /\ tcall[p].pc = "idle"
    /\ TtlCallsOf(TtlCallers) < MaxTtlCalls
    /\ tcall' = [tcall EXCEPT ![p] =
                    [NoTtlCall EXCEPT !.pc = "called", !.op = op,
                        !.addr = addr, !.n = tcall[p].n + 1,
                        !.absent = /\ hostnameFromAddr(addr).ok
                                   /\ ~Has(hostnameFromAddr(addr).hostname)]]
    /\ UNCHANGED <<ttl, tnow, rateLimiters, rlmtx, made, tsweep, tuse, TtlRest>>

\* hostnameFromAddr is not ok: nil, (nil, false), false, or nothing to remove
TtlInvalid(p) ==
    /\ tcall[p].pc = "called"
    /\ ~hostnameFromAddr(tcall[p].addr).ok
    /\ tcall' = [tcall EXCEPT ![p] = Returned(p, NoOut)]
    /\ UNCHANGED <<ttl, tnow, rateLimiters, rlmtx, made, tsweep, tuse, TtlRest>>

\* includeAddr: the entry is built, with lastAccess: time.Now(), before
\* the mutex is taken
IncludeMake(p) ==
    /\ tcall[p].pc = "called"
    /\ tcall[p].op = "includeAddr"
    /\ hostnameFromAddr(tcall[p].addr).ok
    /\ made' = made + 1
    /\ tcall' = [tcall EXCEPT ![p].pc = "made",
                    ![p].entry = [limiter |-> made + 1, lastAccess |-> tnow]]
    /\ UNCHANGED <<ttl, tnow, rateLimiters, rlmtx, tsweep, tuse, TtlRest>>

\* rl.mtx.Lock() of includeAddr, addrLimiter and removeAddr
TtlLock(p) ==
    /\ \/ tcall[p].pc = "made"
       \/ /\ tcall[p].pc = "called"
          /\ tcall[p].op # "includeAddr"
          /\ hostnameFromAddr(tcall[p].addr).ok
    /\ rlmtxFree
    /\ rlmtx' = p
    /\ tcall' = [tcall EXCEPT ![p].pc = "locked"]
    /\ UNCHANGED <<ttl, tnow, rateLimiters, made, tsweep, tuse, TtlRest>>

\* includeAddr: rl.rateLimiters[hostname] = rle, Unlock, return rle.limiter
IncludeStore(p) ==
    /\ tcall[p].pc = "locked"
    /\ tcall[p].op = "includeAddr"
    /\ rateLimiters' = [rateLimiters EXCEPT ![HostOf(p)] = tcall[p].entry]
    /\ tuse' = [tuse EXCEPT ![HostOf(p)] =
                    [last |-> tcall[p].entry.lastAccess, rets |-> <<>>,
                     by |-> "includeAddr"]]
    /\ rlmtx' = NoHolder
    /\ tcall' = [tcall EXCEPT ![p] =
                    Returned(p, [NoOut EXCEPT
                                    !.limiter = tcall[p].entry.limiter])]
    /\ UNCHANGED <<ttl, tnow, made, tsweep, TtlRest>>

\* addrLimiter: actual, ok := rl.rateLimiters[hostname]
AddrLookup(p) ==
    /\ tcall[p].pc = "locked"
    /\ tcall[p].op \in {"addrLimiter", "isAllowed"}
    /\ tcall' = [tcall EXCEPT ![p].pc = "looked",
                    ![p].entry = rateLimiters[HostOf(p)],
                    ![p].ok = Has(HostOf(p))]
    /\ UNCHANGED <<ttl, tnow, rateLimiters, rlmtx, made, tsweep, tuse, TtlRest>>

\* addrLimiter: !ok, a new entry with lastAccess: time.Now() is stored
AddrCreate(p) ==
    /\ tcall[p].pc = "looked"
    /\ ~tcall[p].ok
    /\ made' = made + 1
    /\ rateLimiters' = [rateLimiters EXCEPT ![HostOf(p)] =
                            [limiter |-> made + 1, lastAccess |-> tnow]]
    /\ tuse' = [tuse EXCEPT ![HostOf(p)].by = "addrLimiter"]
    /\ tcall' = [tcall EXCEPT ![p].pc = "stored",
                    ![p].entry = [limiter |-> made + 1, lastAccess |-> tnow]]
    /\ UNCHANGED <<ttl, tnow, rlmtx, tsweep, TtlRest>>

\* addrLimiter: the deferred Unlock and return actual.limiter, ok (isAllowed
\* then calls Allow on the limiter it got)
AddrReturn(p) ==
    /\ \/ tcall[p].pc = "stored"
       \/ tcall[p].pc = "looked" /\ tcall[p].ok
    /\ LET out == [limiter |-> tcall[p].entry.limiter, found |-> tcall[p].ok]
       IN /\ tcall' = [tcall EXCEPT ![p] = Returned(p, out)]
          /\ tuse' = [tuse EXCEPT ![HostOf(p)].last = tnow,
                          ![HostOf(p)].rets =
                              Append(@, [limiter |-> out.limiter,
                                         found |-> out.found,
                                         absent |-> tcall[p].absent])]
    /\ rlmtx' = NoHolder
    /\ UNCHANGED <<ttl, tnow, rateLimiters, made, tsweep, TtlRest>>

\* removeAddr: delete(rl.rateLimiters, hostname) and the deferred Unlock
RemoveDelete(p) ==
    /\ tcall[p].pc = "locked"
    /\ tcall[p].op = "removeAddr"
    /\ rateLimiters' = [rateLimiters EXCEPT ![HostOf(p)] = NoEntry]
    /\ tuse' = [tuse EXCEPT ![HostOf(p)] = NoUse]
    /\ rlmtx' = NoHolder
    /\ tcall' = [tcall EXCEPT ![p] = Returned(p, NoOut)]
    /\ UNCHANGED <<ttl, tnow, made, tsweep, TtlRest>>

\* The wall clock advances.
TtlAdvance ==
    /\ tnow < MaxTtlTime
    /\ tnow' = tnow + 1
    /\ UNCHANGED <<ttl, rateLimiters, rlmtx, made, tcall, tsweep, tuse, TtlRest>>

\* The goroutine: case <-ticker.C: rl.cleanup(), which reads now :=
\* time.Now() before it takes the mutex
TtlTick ==
    /\ tsweep.pc = "select"
    /\ tnow >= tsweep.next
    /\ tsweep' = [tsweep EXCEPT !.pc = "cleanup", !.now = tnow,
                                !.next = tsweep.next + ttl]
    /\ UNCHANGED <<ttl, tnow, rateLimiters, rlmtx, made, tcall, tuse, TtlRest>>

\* cleanup: rl.mtx.Lock()
TtlCleanupLock ==
    /\ tsweep.pc = "cleanup"
    /\ rlmtxFree
    /\ rlmtx' = TtlCleanupOwner
    /\ tsweep' = [tsweep EXCEPT !.pc = "sweep"]
    /\ UNCHANGED <<ttl, tnow, rateLimiters, made, tcall, tuse, TtlRest>>

\* cleanup: the loop that deletes the expired entries, and the deferred
\* Unlock
TtlCleanup ==
    /\ tsweep.pc = "sweep"
    /\ rateLimiters' =
          [h \in Hostnames |->
              IF Has(h) /\ Expired(rateLimiters[h], tsweep.now)
              THEN NoEntry ELSE rateLimiters[h]]
    /\ tuse' = [h \in Hostnames |->
                  IF Has(h) /\ Expired(rateLimiters[h], tsweep.now)
                  THEN NoUse ELSE tuse[h]]
    /\ rlmtx' = NoHolder
    /\ tsweep' = [tsweep EXCEPT !.pc = "select", !.now = 0]
    /\ UNCHANGED <<ttl, tnow, made, tcall, TtlRest>>

TtlNext ==
    \/ \E p \in TtlCallers, op \in TtlOps, addr \in Addrs : TtlCall(p, op, addr)
    \/ \E p \in TtlCallers : TtlInvalid(p)
    \/ \E p \in TtlCallers : IncludeMake(p)
    \/ \E p \in TtlCallers : TtlLock(p)
    \/ \E p \in TtlCallers : IncludeStore(p)
    \/ \E p \in TtlCallers : AddrLookup(p)
    \/ \E p \in TtlCallers : AddrCreate(p)
    \/ \E p \in TtlCallers : AddrReturn(p)
    \/ \E p \in TtlCallers : RemoveDelete(p)
    \/ TtlAdvance
    \/ TtlTick
    \/ TtlCleanupLock
    \/ TtlCleanup

TtlSpec == TtlInit /\ [][TtlNext]_vars

\* The entry of h was found by an addrLimiter call (made for itself or for
\* isAllowed) that returned its limiter at the time tuse[h].last.
UsedAgain(h) ==
    /\ tuse[h].rets # <<>>
    /\ tuse[h].rets[Len(tuse[h].rets)].found

\* C33: cleanup removes only the entries that have not been used for longer
\* than ttl: an entry that an addrLimiter call found and returned (for
\* itself or for isAllowed) within the ttl before the time cleanup read
\* is not removed by it.
C33_CleanupKeepsUsed ==
    [][tsweep.pc = "sweep" =>
          \A h \in Hostnames :
              Has(h) /\ UsedAgain(h) /\ rateLimiters'[h] = NoEntry =>
                  tsweep.now - tuse[h].last > ttl]_vars

\* C34: between the moment an entry is stored and its removal, every
\* addrLimiter return for its hostname carries the limiter of the entry;
\* found is false on the first of them exactly when addrLimiter stored the
\* entry, and true on all later ones, so concurrent first calls for one
\* hostname never create two limiters.
C34_GetOrCreate ==
    \A h \in Hostnames :
        LET r == tuse[h].rets
        IN /\ tuse[h].by # "" <=> Has(h)
           /\ r # <<>> =>
                 /\ Has(h)
                 /\ \A i \in 1..Len(r) :
                       /\ r[i].limiter = rateLimiters[h].limiter
                       /\ r[i].found <=> (i > 1 \/ tuse[h].by = "includeAddr")

\* Two addrLimiter calls for one hostname were both made while it had no
\* entry; one created the limiter and the other got the same one with
\* found = true.
C34_Witness ==
    \E h \in Hostnames :
        /\ Len(tuse[h].rets) = 2
        /\ ~tuse[h].rets[1].found
        /\ tuse[h].rets[2].found
        /\ tuse[h].rets[1].limiter = tuse[h].rets[2].limiter
        /\ tuse[h].rets[1].absent
        /\ tuse[h].rets[2].absent

\* ------------------------------------------------------------------------
\* Handler with an error channel (handler.go, New)
\* ------------------------------------------------------------------------
MaxErrCalls == 2

\* pathToRegex: the arguments replaced, the separators escaped, compiled
pathToRegex(path) == Compile(EscapeSeparators(ReplaceAllArgs(path, 1)), 1)

\* pathToRegex on the paths of the scenario: the program, and err != nil
Compiled == [path \in ConcPaths |-> pathToRegex(path)]
CompileFails == [path \in ConcPaths |-> ~CompileOK(pathToRegex(path))]

\* m.Errors <- err returns only when a goroutine receives from the channel
ErrorTaken == receiver

\* New(): an unbuffered Errors channel, a free mutex, no routes; a goroutine
\* that ranges over Errors is running, or none is.
ErrInit ==
    /\ receiver \in BOOLEAN
    /\ emtx = NoHolder
    /\ eroutes = <<>>
    /\ ecall = [p \in ErrCallers |-> NoErrCall]
    /\ received = 0
    /\ TtlIdle
    /\ HandlerIdle
    /\ ConcIdle
    /\ LimiterIdle
    /\ RouteIdle
    /\ MiddlewareIdle
    /\ GetIPIdle

ErrRest == <<rlVars, routeVars, handlerVars, mw, gip, concVars, ttlVars>>

\* A goroutine calls HandleFunc or find (find on behalf of ServeHTTP).
ErrCall(p, op, method, path) ==
    /\ ecall[p].pc = "idle"
    /\ ecall[p].n < MaxErrCalls
    /\ ecall' = [ecall EXCEPT ![p] =
                    [NoErrCall EXCEPT !.pc = "called", !.op = op,
                        !.method = method, !.path = path,
                        !.n = ecall[p].n + 1]]
    /\ UNCHANGED <<receiver, emtx, eroutes, received, ErrRest>>

\* HandleFunc: the method is none of supportedMethods, the loop ends
ErrUnsupported(p) ==
    /\ ecall[p].pc = "called"
    /\ ecall[p].op = "HandleFunc"
    /\ ~Supported(ecall[p].method)
    /\ ecall' = [ecall EXCEPT ![p].pc = "idle"]
    /\ UNCHANGED <<receiver, emtx, eroutes, received, ErrRest>>

\* m.mtx.Lock() of HandleFunc and of find
ErrLock(p) ==
    /\ ecall[p].pc = "called"
    /\ ecall[p].op = "HandleFunc" => Supported(ecall[p].method)
    /\ emtx = NoHolder
    /\ emtx' = p
    /\ ecall' = [ecall EXCEPT ![p].pc = "locked"]
    /\ UNCHANGED <<receiver, eroutes, received, ErrRest>>

\* HandleFunc: pathToRegex fails and m.Error(...) sends on m.Errors while
\* the deferred Unlock has not run
ErrSend(p) ==
    /\ ecall[p].pc = "locked"
    /\ ecall[p].op = "HandleFunc"
    /\ CompileFails[ecall[p].path]
    /\ ecall' = [ecall EXCEPT ![p].pc = "sending"]
    /\ UNCHANGED <<receiver, emtx, eroutes, received, ErrRest>>

\* The send completes: the error is received, HandleFunc returns and the
\* deferred Unlock runs
ErrReceive(p) ==
    /\ ecall[p].pc = "sending"
    /\ ErrorTaken
    /\ received' = received + 1
    /\ emtx' = NoHolder
    /\ ecall' = [ecall EXCEPT ![p].pc = "idle"]
    /\ UNCHANGED <<receiver, eroutes, ErrRest>>

\* The routes after HandleFunc: the route with the method and path is
\* overwritten, or the new route is appended
ErrRoutes(rs, method, path) ==
    LET new == [method |-> method, path |-> path, prog |-> Compiled[path]]
        same == {i \in 1..Len(rs) : rs[i].method = method /\ rs[i].path = path}
    IN IF same # {} THEN [rs EXCEPT ![SetMin(same)] = new]
       ELSE Append(rs, new)

\* HandleFunc: the path compiles, the route is stored, the deferred Unlock
ErrRegister(p) ==
    /\ ecall[p].pc = "locked"
    /\ ecall[p].op = "HandleFunc"
    /\ ~CompileFails[ecall[p].path]
    /\ eroutes' = ErrRoutes(eroutes, ecall[p].method, ecall[p].path)
    /\ emtx' = NoHolder
    /\ ecall' = [ecall EXCEPT ![p].pc = "idle"]
    /\ UNCHANGED <<receiver, received, ErrRest>>

\* find: the loop over m.routes and the deferred Unlock
ErrFind(p) ==
    /\ ecall[p].pc = "locked"
    /\ ecall[p].op = "find"
    /\ emtx' = NoHolder
    /\ ecall' = [ecall EXCEPT ![p].pc = "idle",
                    ![p].exist =
                        \E i \in 1..Len(eroutes) :
                            /\ eroutes[i].method = ecall[p].method
                            /\ MatchString(eroutes[i].prog, ecall[p].path)]
    /\ UNCHANGED <<receiver, eroutes, received, ErrRest>>

\* The steps of the call of p once it is made.
ErrRun(p) ==
    \/ ErrUnsupported(p)
    \/ ErrLock(p)
    \/ ErrSend(p)
    \/ ErrReceive(p)
    \/ ErrRegister(p)
    \/ ErrFind(p)

ErrNext ==
    \/ \E p \in ErrCallers, m \in ConcMethods, path \in ConcPaths :
          ErrCall(p, "HandleFunc", m, path)
    \/ \E p \in ErrCallers, path \in FindPaths : ErrCall(p, "find", "GET", path)
    \/ \E p \in ErrCallers : ErrUnsupported(p)
    \/ \E p \in ErrCallers : ErrLock(p)
    \/ \E p \in ErrCallers : ErrSend(p)
    \/ \E p \in ErrCallers : ErrReceive(p)
    \/ \E p \in ErrCallers : ErrRegister(p)
    \/ \E p \in ErrCallers : ErrFind(p)

ErrSpec == ErrInit /\ [][ErrNext]_vars

\* Every goroutine that is in a call keeps running, and a goroutine that
\* waits for the mutex gets it if it is free again and again.
ErrFairSpec == ErrSpec /\ \A p \in ErrCallers : SF_vars(ErrRun(p))

\* C39: every HandleFunc call eventually returns and releases the mutex,
\* also when the path does not compile and no goroutine receives from
\* Errors, and no find call waits for the mutex forever.
C39_HandleFuncReturns ==
    \A p \in ErrCallers : (ecall[p].pc # "idle") ~> (ecall[p].pc = "idle")

\* With a goroutine receiving from Errors every call returns.
ReturnsIfReceived ==
    receiver => \A p \in ErrCallers :
                    (ecall[p].pc # "idle") ~> (ecall[p].pc = "idle")

====
